---------------------------- MODULE Spec2Model ----------------------------
(***************************************************************************)
(* Verification model of ibp-geodns-libs: the consensus engine             *)
(* (nats/modules/consensus), the cluster registry (nats), and the finalize *)
(* hook (nats/consensus_bridge.go, data/results_Official.go, data2).       *)
(*                                                                         *)
(* Every handler runs on its own goroutine and serialises on State.Mu, so  *)
(* one action is one handler.  State.Mu is a sync.RWMutex, which is not    *)
(* re-entrant: a goroutine that holds it exclusively and then asks for a   *)
(* read lock waits for itself.  mu[n] = "stuck" is that state.             *)
(***************************************************************************)
EXTENDS Integers, FiniteSets, Sequences, TLC

\* ------------------------------------------------------------------ bounds
MaxPublish == 7          \* Publish calls of proposals and votes in one run
MaxProposePublish == 3   \* the same, in the runs that propose twice
MaxExpire == 1           \* registry entries that age out of the active window
MaxHandle == 2           \* times a recipient handles one FinalizeMessage
MaxVotePublish == 3      \* Publish calls in the runs with modelled result stores
MaxTimerPublish == 2     \* Publish calls in the runs with timers and collection
MaxRolePublish == 3      \* Publish calls in the runs with nodes of every role
MaxCalls == 3            \* NotifyMemberOffline / NotifyMemberOnline calls in one run
MaxRecord == 3           \* RecordEvent goroutines in one run
TickSeconds == 15        \* seconds the clock advances in one step
MaxClock == 45           \* last clock reading of a run
MaxUpsert == 3           \* UpsertUsage calls in one run
MaxResponses == 2        \* responses that reach the inbox of one RequestAll
TimeoutPolls == 2        \* the caller's timeout, in 100 ms polls
MaxRequests == 2         \* requests one responder receives in one run

\* RecordEvent deletes an outage shorter than 30 seconds.
ShortFlap == 30

\* --------------------------------------------------------------- constants
minConsensusVotes == 1

\* Node ids of the cluster.  Both run the monitor role; the second has an id
\* from which guessRoleFromID cannot infer the role.
NodeIDs == {"monitor1", "probe2"}

RoleMonitor == "IBPMonitor"
RoleDns == "IBPDns"
RoleCollator == "IBPCollator"
RoleUnknown == ""

\* The ids matched by reMonitor / reDns.
MatchesMonitor(id) == id \in {"monitor1", "monitor2"}
MatchesDns(id) == id \in {"dns1"}

guessRoleFromID(id) ==
    IF MatchesMonitor(id) THEN RoleMonitor
    ELSE IF MatchesDns(id) THEN RoleDns
    ELSE RoleUnknown

\* The check a proposal is about: the six non-status semantic fields.
CheckKey(v6) ==
    [CheckType |-> "endpoint", CheckName |-> "wss", MemberName |-> "m1",
     DomainName |-> "rpc.example", Endpoint |-> "wss://rpc.example/x",
     IsIPv6 |-> v6]

CheckKeys == {CheckKey(FALSE)}

\* The ids uuid.New can return in one run.
ProposalIDs == {"uuid-1", "uuid-2"}

\* The nodes that answer on the inbox.
Origins == {"dns1", "dns2"}

\* The dailyUsageKeys of the runs that record hits: two domains of a day.
StatKeys == {"2025-01-01|rpc.example", "2025-01-01|sys.example"}

\* The goroutines of the check loop that call ProposeCheckStatus.
CheckLoops == {"check1", "check2"}

NoScan == [node |-> "", key |-> CheckKey(FALSE), status |-> FALSE, pc |-> "idle",
           before |-> {}, made |-> ""]

VARIABLES
    clusterNodes,   \* State.ClusterNodes of each node: id -> [NodeRole, active]
    proposals,      \* State.Proposals of each node: pid -> ProposalTracking
    mu,             \* State.Mu of each node: "free" or "stuck"
    net,            \* proposals and votes published and not yet handled
    voters,         \* voteOnProposal goroutines started and not yet run
    finalizers,     \* finalize goroutines started and not yet run
    unused,         \* proposal ids uuid.New has not returned yet
    quota,          \* Publish calls of proposals and votes still allowed
    expired,        \* registry entries aged out so far
    depsLocking,    \* Dependencies.CountActiveMonitors takes State.Mu.RLock
    allAgree,       \* every local result store holds the proposed status
    published,      \* the finalize subject: every FinalizeMessage published
    lastCall,       \* the most recent ProposeCheckStatus call and what it found
    dIn,            \* decideLocked alone: the registry and the entry given
    dOut,           \* decideLocked alone: the entry afterwards
    recipientRole,  \* State.ThisNode.NodeRole of the node running the hook
    official,       \* data.Official of that node: check key -> status
    recorded,       \* the RecordEvent calls it made, in order
    rows,           \* member_events rows of the collator's database
    offlineMap,     \* matrix.offlineMap: the outage keys announced
    handled,        \* how often the node handled each FinalizeMessage
    lastHandled,    \* the FinalizeMessage it handled last, and how that went
    Local,          \* data.Local of each node: whether modelled, and its results
    callbacks,      \* forceFinalize calls a fired timer started, not yet run
    detached,       \* armed timers that no entry's Timer field refers to
    old,            \* proposal ids whose Timestamp is over 10 minutes ago
    nodeRole,       \* State.ThisNode.NodeRole of each node
    alertMap,       \* matrix.offlineMap by sync.Map operation: key -> EventID
    calls,          \* the NotifyMember* calls started, each with its position
    room,           \* what the Matrix room was sent, in order
    events,         \* member_events rows of a monitor's database
    clock,          \* time.Now(), in seconds
    recorders,      \* the RecordEvent goroutines started, each with its position
    requests,       \* rows of the collator's requests table
    upserts,        \* the UpsertUsage calls made, in order, each with its result
    peers,          \* NodeIDs the caller's registry counts as active in the target role
    gather,         \* the RequestAll call of the caller: position, expected, result
    responseMap,    \* RequestAll's responseMap: NodeID -> payload
    inbox,          \* the responses received on the reply inbox, in order
    handlers,       \* responses whose handler goroutine has not run yet
    incoming,       \* the usage / downtime requests a responder has received
    served,         \* per request handled: the request and what was published
    registry,       \* State.ClusterNodes with LastHeard: id -> NodeInfo
    wall,           \* time.Now(), in milliseconds
    cluster,        \* handleClusterMessage goroutines: the message and the position
                    \* (one per distinct message)
    gc,             \* cleanStaleNodes: the position and the `now` it read
    boot,           \* enableRoleInternal and the goroutines it starts
    joinCalls,      \* broadcastClusterJoin calls: per calling goroutine, the position
    mem,            \* data.Official as memory: arrays, slice headers, the snapshot
    readers,        \* the lists GetOfficialResults returned, each with what it held then
    config,         \* cfg.data.Members, the members file loaded last, the loads so far
    overrides,      \* MemberDisable / MemberEnable calls: the copy held and the position
    scans,          \* ProposeCheckStatus calls of the check goroutines, step by step
    onlineNotes,    \* ONLINE notifications the Matrix room accepted, in order
    dnsHits,        \* hits each DNS node holds for the key of the day
    hour,           \* collections the collator has completed
    usageMem,       \* usageMem.data of the recording node: key -> hits
    dbHits,         \* hits the upserts have added to the requests table, per key
    recordedHits,   \* RecordDnsHit calls that counted a hit, per key
    lastFlush       \* the keys the last flush tried and those whose upsert failed

\* The timers time.AfterFunc armed for forceFinalize, and the age of proposals.
timerVars == <<callbacks, detached, old>>

consVars == <<clusterNodes, proposals, mu, net, voters, finalizers, unused,
              quota, expired, depsLocking, allAgree, published, lastCall,
              timerVars>>

decideVars == <<dIn, dOut>>

applyVars == <<recipientRole, official, recorded, rows, offlineMap, handled,
               lastHandled>>

\* What no consensus handler writes.
\* The Matrix notifier at the granularity of its sync.Map operations.
matrixVars == <<alertMap, calls, room>>

\* The event recorder of a monitor.
eventVars == <<events, clock, recorders>>

\* The collator's usage table.
usageVars == <<requests, upserts>>

\* The fleet aggregation layer.
\* One scatter/gather call.
gatherVars == <<peers, gather, responseMap, inbox, handlers>>

\* A responder of the scatter/gather flows.
respondVars == <<incoming, served>>

fleetVars == <<usageVars, gatherVars, respondVars>>

\* The cluster registry with its LastHeard times.
\* broadcastClusterJoin step by step.
callVars == <<joinCalls>>

\* The result store at the level of slices and arrays.
sliceVars == <<mem, readers>>

\* The members of the configuration and the calls that override them.
overrideVars == <<config, overrides>>

\* The concurrent callers of ProposeCheckStatus.
scanVars == <<scans>>

\* The ONLINE notifications of the finalize hook.
alertVars == <<onlineNotes>>

\* The hourly collections of the collator.
collectVars == <<dnsHits, hour>>

\* The usage counters of a DNS node.
statsVars == <<usageMem, dbHits, recordedHits, lastFlush>>

lateVars == <<callVars, sliceVars, overrideVars, scanVars, alertVars, collectVars, statsVars>>

\* The registry of one node and its startup.
nodeVars == <<registry, wall, cluster, gc, boot>>

clusterVars == <<nodeVars, lateVars>>

restVars == <<Local, nodeRole, matrixVars, eventVars, fleetVars, clusterVars>>

\* Everything but the fleet aggregation layer.
coreVars == <<consVars, decideVars, applyVars, Local, nodeRole, matrixVars, eventVars,
              clusterVars>>

vars == <<consVars, decideVars, applyVars, restVars>>


\* The role each node enabled.
NodeRoleOf(n) == nodeRole[n]

\* The handler a consensus message reaches on a node of every role.
DispatchAsMonitor(role, subject) ==
    CASE subject = "propose" -> "HandleProposal"
      [] subject = "vote" -> "HandleVote"
      [] subject = "finalize" -> "HandleFinalize"
      [] OTHER -> "none"

\* messageRouter.Dispatch over the registered modules, and the subscriptions
\* of StartCollatorServices: the handler a consensus message reaches.
Dispatch(role, subject) ==
    CASE role = RoleMonitor /\ subject = "propose" -> "HandleProposal"
      [] role = RoleMonitor /\ subject = "vote" -> "HandleVote"
      [] role = RoleMonitor /\ subject = "finalize" -> "HandleFinalize"
      [] role = RoleCollator /\ subject = "propose" -> "CacheProposal"
      [] role = RoleCollator /\ subject = "vote" -> "HandleVote"
      [] role = RoleCollator /\ subject = "finalize" -> "HandleFinalize"
      [] OTHER -> "none"

\* ------------------------------------------------------- NodeInfo with times
\* Times are milliseconds of the wall clock; 0 is the zero time.Time.
activeNodeWindow == 600000
staleNodeWindow == 900000

StartTime == 300000      \* when the nodes enabled their role
TickMillis == 300000     \* the wall clock advances in steps of this size
MaxWall == 1800000       \* the wall clock stops here
MaxCluster == 2          \* cluster messages one node receives in one run

\* A core.NodeInfo.
NodeEntry(id, role, heard) == [NodeID |-> id, NodeRole |-> role, LastHeard |-> heard]

\* State.NodeID and State.ThisNode once the role is enabled.
SelfID == "monitor1"
ThisNode == NodeEntry(SelfID, RoleMonitor, StartTime)

broadcastJoinRetryCount == 3
broadcastJoinDelay == 500
joinDebounce == 5000         \* broadcastClusterJoin returns within 5 s of the last call
heartbeatDelay == 2000       \* startHeartbeat sleeps before it makes its ticker
heartbeatInterval == 90000
subscribeAttempts == 5
subscribeDelay == 2000

MaxHeartbeats == 2       \* ticks of the heartbeat in one run
MaxCollections == 2      \* hourly collections in one run after the first
MaxDnsHits == 2          \* hits a DNS node counts for one key in the runs that collect twice
MaxHitsRecorded == 4     \* hits RecordDnsHit counts in one run
MaxFlips == 1            \* times the connection is lost or comes back in one run

\* The goroutines that call broadcastClusterJoin.
Callers == {"startup", "heartbeat"}

\* A node whose role is enabled and whose startup goroutines have ended.
Enabled ==
    [pc |-> "enabled", NodeID |-> SelfID, role |-> RoleMonitor,
     enabledAt |-> StartTime, attempt |-> 0, wake |-> 0,
     connected |-> TRUE, flips |-> 0, wasDown |-> FALSE, gcOn |-> TRUE,
     joinPc |-> "done", joinI |-> broadcastJoinRetryCount, joinWake |-> 0,
     hbPc |-> "ticker", hbWake |-> 0, hbN |-> 0,
     lastJoin |-> 0, joins |-> <<>>]

MaxUpdates == 3          \* UpdateOfficialSiteResult calls in one run
MaxReads == 2            \* GetOfficialResults calls in one run

MaxLoads == 2            \* reloads of the configuration in one run
MaxOverrides == 2        \* MemberDisable / MemberEnable calls in one run

\* ------------------------------------------------------------ map helpers
\* Go maps are partial functions: m[k] = v, delete(m, k).
Put(m, k, v) == [x \in (DOMAIN m) \cup {k} |-> IF x = k THEN v ELSE m[x]]
KeepAll(m, k) == m
Del(m, k) == [x \in (DOMAIN m) \ {k} |-> m[x]]
EmptyMap == [x \in {} |-> TRUE]

\* The sum of the values of a map to numbers.
RECURSIVE SumOver(_)
SumOver(m) ==
    IF DOMAIN m = {} THEN 0
    ELSE LET k == CHOOSE x \in DOMAIN m : TRUE
         IN m[k] + SumOver([x \in DOMAIN m \ {k} |-> m[x]])

\* ---------------------------------------------------------------- registry
\* A NodeInfo, with LastHeard abstracted to "heard within activeNodeWindow".
NodeInfo(role, act) == [NodeRole |-> role, active |-> act]

IsNodeActive(node) == node.active

markNodeHeard(reg, id) ==
    IF id = "" THEN reg
    ELSE LET cur == IF id \in DOMAIN reg THEN reg[id]
                    ELSE NodeInfo(RoleUnknown, FALSE)
             role == IF cur.NodeRole = RoleUnknown THEN guessRoleFromID(id)
                     ELSE cur.NodeRole
         IN Put(reg, id, NodeInfo(role, TRUE))

addNode(reg, id, info) ==
    IF id = "" THEN reg
    ELSE IF id \notin DOMAIN reg
            \/ (reg[id].NodeRole = RoleUnknown /\ info.NodeRole # RoleUnknown)
         THEN Put(reg, id, info)
         ELSE reg

CountActiveMonitors(reg) ==
    Cardinality({id \in DOMAIN reg :
                    reg[id].NodeRole = RoleMonitor /\ IsNodeActive(reg[id])})

\* ------------------------------------------------------------ consensus
Proposal(pid, sender, key, status) ==
    [ID |-> pid, SenderNodeID |-> sender,
     CheckType |-> key.CheckType, CheckName |-> key.CheckName,
     MemberName |-> key.MemberName, DomainName |-> key.DomainName,
     Endpoint |-> key.Endpoint, ProposedStatus |-> status,
     IsIPv6 |-> key.IsIPv6]

KeyOf(prop) ==
    [CheckType |-> prop.CheckType, CheckName |-> prop.CheckName,
     MemberName |-> prop.MemberName, DomainName |-> prop.DomainName,
     Endpoint |-> prop.Endpoint, IsIPv6 |-> prop.IsIPv6]

NewTracking(prop) ==
    [Proposal |-> prop, Votes |-> EmptyMap, Finalized |-> FALSE,
     Passed |-> FALSE, Timer |-> "running"]

\* The loop condition without the comparison of ProposedStatus.
SameOpenProposalAnyStatus(pt, key, status) ==
    /\ ~pt.Finalized
    /\ pt.Proposal.CheckType = key.CheckType
    /\ pt.Proposal.CheckName = key.CheckName
    /\ pt.Proposal.MemberName = key.MemberName
    /\ pt.Proposal.DomainName = key.DomainName
    /\ pt.Proposal.Endpoint = key.Endpoint
    /\ pt.Proposal.IsIPv6 = key.IsIPv6

\* The loop condition of ProposeCheckStatus.
SameOpenProposal(pt, key, status) ==
    /\ ~pt.Finalized
    /\ pt.Proposal.CheckType = key.CheckType
    /\ pt.Proposal.CheckName = key.CheckName
    /\ pt.Proposal.MemberName = key.MemberName
    /\ pt.Proposal.DomainName = key.DomainName
    /\ pt.Proposal.Endpoint = key.Endpoint
    /\ pt.Proposal.ProposedStatus = status
    /\ pt.Proposal.IsIPv6 = key.IsIPv6

HasOpenProposal(props, key, status) ==
    \E pid \in DOMAIN props : SameOpenProposal(props[pid], key, status)

Majority(total) == (total \div 2) + 1

\* A tally that counts every stored vote, whoever cast it.
CountVotesAnyNode(reg, votes, agree) ==
    Cardinality({nid \in DOMAIN votes : votes[nid] = agree})

\* The votes decideLocked counts for one side.
CountVotes(reg, votes, agree) ==
    Cardinality({nid \in DOMAIN votes :
                    /\ nid \in DOMAIN reg
                    /\ reg[nid].NodeRole = RoleMonitor
                    /\ IsNodeActive(reg[nid])
                    /\ votes[nid] = agree})

decideLocked(reg, pt) ==
    LET total == CountActiveMonitors(reg)
        maj == Majority(total)
        yes == CountVotes(reg, pt.Votes, TRUE)
        no == CountVotes(reg, pt.Votes, FALSE)
    IN IF total = 0 THEN pt
       ELSE IF yes >= maj /\ yes >= minConsensusVotes
            THEN [pt EXCEPT !.Finalized = TRUE, !.Passed = TRUE, !.Timer = "stopped"]
       ELSE IF no >= maj /\ no >= minConsensusVotes
            THEN [pt EXCEPT !.Finalized = TRUE, !.Passed = FALSE, !.Timer = "stopped"]
       ELSE pt

\* Publish: NATS hands one copy to every subscriber, the publisher included.
Publish(msg) == {[to |-> d, msg |-> msg] : d \in NodeIDs}

\* by and k stand for DecidedAt: the k-th decision node by published for the
\* proposal.
FinalizeMessage(prop, passed, by, k) ==
    [Proposal |-> prop, Passed |-> passed, by |-> by, k |-> k]

NoFinal == FinalizeMessage(Proposal("", "", CheckKey(FALSE), FALSE), FALSE, "", 0)

NoHandled == [fm |-> NoFinal, notified |-> FALSE, again |-> FALSE]

NoCall == [node |-> "", key |-> CheckKey(FALSE), status |-> FALSE, found |-> FALSE]

\* ------------------------------------------------------ local results
\* The check keys a local result store can hold an observation for.
LocalKeys == {CheckKey(FALSE), CheckKey(TRUE)}

\* data.Local as far as the lookups go: check key -> Status of the member's
\* Result.
LocalStores == UNION {[ks -> BOOLEAN] : ks \in SUBSET LocalKeys}

\* A lookup that takes the member's result of either address family.
GetLocalStatusAnyFamily(results, key) ==
    IF \A k \in DOMAIN results : [k EXCEPT !.IsIPv6 = key.IsIPv6] # key
    THEN "none"
    ELSE IF \E k \in DOMAIN results :
               [k EXCEPT !.IsIPv6 = key.IsIPv6] = key /\ results[k]
         THEN "online"
    ELSE "offline"

\* GetLocal{Site,Domain,Endpoint}StatusIPv4v6: (found, status) of the key.
GetLocalStatusIPv4v6(results, key) ==
    IF key \notin DOMAIN results THEN "none"
    ELSE IF results[key] THEN "online"
    ELSE "offline"

\* UpdateLocal{Site,Domain,Endpoint}Result: replace-or-append.
UpdateLocalResult(results, key, status) == Put(results, key, status)

\* The store left out of a run: its lookups can return anything.
InitLocalIdle == Local = [n \in NodeIDs |-> [modelled |-> FALSE, results |-> EmptyMap]]

\* EnableMonitorRole on every node.
InitAllMonitors == nodeRole = [n \in NodeIDs |-> RoleMonitor]

\* ------------------------------------------------------ consensus: actions
InitConsensus ==
    /\ proposals = [n \in NodeIDs |-> EmptyMap]
    /\ mu = [n \in NodeIDs |-> "free"]
    /\ net = {}
    /\ voters = {}
    /\ finalizers = {}
    /\ expired = 0
    /\ lastCall = NoCall
    /\ callbacks = {}
    /\ detached = {}
    /\ old = {}
    /\ alertMap = EmptyMap
    /\ calls = <<>>
    /\ room = <<>>
    /\ events = {}
    /\ clock = 0
    /\ recorders = <<>>
    /\ requests = {}
    /\ upserts = <<>>
    /\ peers = {}
    /\ gather = [pc |-> "idle", flow |-> "usage", expected |-> 0,
                 subscribed |-> FALSE, published |-> FALSE, elapsed |-> 0,
                 before |-> {}, failedBefore |-> FALSE, used |-> EmptyMap,
                 result |-> {}]
    /\ responseMap = EmptyMap
    /\ inbox = <<>>
    /\ handlers = {}
    /\ incoming = <<>>
    /\ served = <<>>

\* No call is in progress.
InitLateIdle ==
    /\ joinCalls = [g \in Callers |-> [pc |-> "wait", now |-> 0]]
    /\ mem = [heap |-> [a \in {0} |-> <<>>], next |-> 1, Official |-> [arr |-> 0, len |-> 0],
             official |-> [arr |-> 0, len |-> 0], calls |-> 0, started |-> <<>>]
    /\ readers = <<>>
    /\ config = [Members |-> [name \in {"m1", "m2"} |-> [data |-> 0, Override |-> FALSE, OverrideTime |-> 0]],
                newest |-> [name \in {"m1", "m2"} |-> [data |-> 0, Override |-> FALSE, OverrideTime |-> 0]],
                loads |-> 0]
    /\ overrides = <<>>
    /\ scans = [c \in CheckLoops |-> NoScan]
    /\ onlineNotes = <<>>
    /\ dnsHits = [n \in Origins |-> 1]
    /\ hour = 0
    /\ usageMem = EmptyMap
    /\ dbHits = [k \in StatKeys |-> 0]
    /\ recordedHits = [k \in StatKeys |-> 0]
    /\ lastFlush = [tried |-> {}, failed |-> {}]

\* The registry after enableRoleInternal, nothing received yet.
InitClusterIdle ==
    /\ registry = Put(EmptyMap, SelfID, ThisNode)
    /\ wall = StartTime
    /\ cluster = {}
    /\ gc = [pc |-> "idle", now |-> 0]
    /\ boot = Enabled
    /\ InitLateIdle

\* enableRoleInternal: a registry holds the node itself.
OwnRegistry == [n \in NodeIDs |-> [x \in {n} |-> NodeInfo(NodeRoleOf(n), TRUE)]]

\* Every node has handled the JOIN of every other within activeNodeWindow.
FullRegistry == [n \in NodeIDs |-> [x \in NodeIDs |-> NodeInfo(NodeRoleOf(x), TRUE)]]

InitDecideIdle ==
    /\ dIn = [reg |-> EmptyMap,
              pt |-> NewTracking(Proposal("", "", CheckKey(FALSE), FALSE))]
    /\ dOut = [done |-> TRUE,
               pt |-> NewTracking(Proposal("", "", CheckKey(FALSE), FALSE))]

\* The hook has handled nothing yet.
InitApplyIdle ==
    /\ recipientRole = RoleMonitor
    /\ official = EmptyMap
    /\ recorded = <<>>
    /\ rows = {}
    /\ offlineMap = {}
    /\ handled = [fm \in {} |-> 0]
    /\ lastHandled = NoHandled

Init ==
    /\ InitConsensus
    /\ InitClusterIdle
    /\ InitLocalIdle
    /\ InitAllMonitors
    /\ InitDecideIdle
    /\ InitApplyIdle
    /\ published = {}
    /\ clusterNodes = OwnRegistry
    /\ unused = {"uuid-1"}
    /\ quota = MaxPublish
    /\ depsLocking \in BOOLEAN
    /\ allAgree = FALSE

\* ProposeCheckStatus and propose.  uuid.New returns an id never seen before.
\* The caller is the check loop of a monitor.
ProposeCheckStatus(n, key, status) ==
    /\ nodeRole[n] = RoleMonitor
    /\ mu[n] = "free"
    /\ IF HasOpenProposal(proposals[n], key, status)
       THEN /\ lastCall' = [node |-> n, key |-> key, status |-> status,
                            found |-> TRUE]
            /\ UNCHANGED <<proposals, net, voters, unused, quota>>
       ELSE /\ unused # {}
            /\ quota > 0
            /\ LET pid == CHOOSE p \in unused : TRUE
                   prop == Proposal(pid, n, key, status)
               IN /\ unused' = unused \ {pid}
                  /\ proposals' = [proposals EXCEPT
                                      ![n] = Put(@, pid, NewTracking(prop))]
                  /\ net' = net \cup
                            Publish([subject |-> "propose", Proposal |-> prop])
                  /\ voters' = voters \cup {[node |-> n, Proposal |-> prop]}
            /\ quota' = quota - 1
            /\ lastCall' = [node |-> n, key |-> key, status |-> status,
                            found |-> FALSE]
    /\ UNCHANGED <<clusterNodes, mu, finalizers, expired, depsLocking, allAgree,
                   published>>
    /\ UNCHANGED <<decideVars, applyVars, restVars, timerVars>>

HandleProposal(n) ==
    \E m \in net :
        /\ m.to = n /\ m.msg.subject = "propose"
        /\ Dispatch(nodeRole[n], "propose") = "HandleProposal"
        /\ mu[n] = "free"
        /\ LET prop == m.msg.Proposal
           IN /\ net' = net \ {m}
              /\ clusterNodes' = [clusterNodes EXCEPT
                                     ![n] = markNodeHeard(@, prop.SenderNodeID)]
              /\ IF prop.ID \notin DOMAIN proposals[n]
                 THEN /\ proposals' = [proposals EXCEPT
                                          ![n] = Put(@, prop.ID, NewTracking(prop))]
                      /\ voters' = voters \cup {[node |-> n, Proposal |-> prop]}
                 ELSE UNCHANGED <<proposals, voters>>
        /\ UNCHANGED <<mu, finalizers, unused, quota, expired, depsLocking, allAgree,
                       published, lastCall>>
        /\ UNCHANGED <<decideVars, applyVars, restVars, timerVars>>

\* checkLocalStatus: what the node's local result store holds for the check
\* when the vote is cast ("none": no observation).
checkLocalStatus(n, prop) ==
    IF allAgree THEN {IF prop.ProposedStatus THEN "online" ELSE "offline"}
    ELSE IF Local[n].modelled
         THEN {GetLocalStatusIPv4v6(Local[n].results, KeyOf(prop))}
    ELSE {"none", "online", "offline"}

voteOnProposal(n) ==
    \E v \in voters :
        /\ v.node = n
        /\ voters' = voters \ {v}
        /\ \E obs \in checkLocalStatus(n, v.Proposal) :
              IF obs = "none"
              THEN UNCHANGED <<net, quota>>
              ELSE /\ quota > 0
                   /\ quota' = quota - 1
                   /\ net' = net \cup Publish(
                          [subject |-> "vote", ProposalID |-> v.Proposal.ID,
                           SenderNodeID |-> n, NodeID |-> n,
                           Agree |-> ((obs = "online") = v.Proposal.ProposedStatus)])
        /\ UNCHANGED <<clusterNodes, proposals, mu, finalizers, unused, expired,
                       depsLocking, allAgree, published, lastCall>>
        /\ UNCHANGED <<decideVars, applyVars, restVars, timerVars>>

\* decideLocked as HandleVote and forceFinalize run it on entry pt of node n
\* with registry reg, State.Mu held exclusively.  The CountActiveMonitors the
\* nats package injects asks for State.Mu.RLock first.
Decide(n, reg, pt) ==
    IF depsLocking
    THEN /\ mu' = [mu EXCEPT ![n] = "stuck"]
         /\ proposals' = [proposals EXCEPT ![n] = Put(@, pt.Proposal.ID, pt)]
         /\ UNCHANGED finalizers
    ELSE LET after == decideLocked(reg, pt)
         IN /\ mu' = mu
            /\ proposals' = [proposals EXCEPT ![n] = Put(@, pt.Proposal.ID, after)]
            /\ IF after.Finalized
               THEN finalizers' = finalizers \cup
                          {[node |-> n, Proposal |-> after.Proposal,
                            Passed |-> after.Passed]}
               ELSE UNCHANGED finalizers

HandleVote(n) ==
    \E m \in net :
        /\ m.to = n /\ m.msg.subject = "vote"
        /\ Dispatch(nodeRole[n], "vote") = "HandleVote"
        /\ mu[n] = "free"
        /\ net' = net \ {m}
        /\ LET reg == markNodeHeard(clusterNodes[n], m.msg.SenderNodeID)
               pid == m.msg.ProposalID
           IN /\ clusterNodes' = [clusterNodes EXCEPT ![n] = reg]
              /\ IF pid \notin DOMAIN proposals[n] \/ proposals[n][pid].Finalized
                 THEN UNCHANGED <<proposals, mu, finalizers>>
                 ELSE Decide(n, reg,
                             [proposals[n][pid] EXCEPT
                                 !.Votes = Put(@, m.msg.NodeID, m.msg.Agree)])
        /\ UNCHANGED <<voters, unused, quota, expired, depsLocking, allAgree, published,
                       lastCall>>
        /\ UNCHANGED <<decideVars, applyVars, restVars, timerVars>>

\* The proposal timer fires.
forceFinalize(n) ==
    \E pid \in DOMAIN proposals[n] :
        /\ proposals[n][pid].Timer = "running"
        /\ mu[n] = "free"
        /\ IF proposals[n][pid].Finalized
           THEN UNCHANGED <<proposals, mu, finalizers>>
           ELSE Decide(n, clusterNodes[n], proposals[n][pid])
        /\ UNCHANGED <<clusterNodes, net, voters, unused, quota, expired, depsLocking,
                       allAgree, published, lastCall>>
        /\ UNCHANGED <<decideVars, applyVars, restVars, timerVars>>

\* The finalize goroutine decideLocked started: publish, OnFinalize (the hook,
\* see onConsensusFinalize), delete.  decideLocked starts it only
\* when it returns, so never on a node whose State.Mu is stuck.
finalize(n) ==
    \E f \in finalizers :
        /\ f.node = n
        /\ mu[n] = "free"
        /\ LET k == Cardinality({p \in published :
                        p.by = n /\ p.Proposal.ID = f.Proposal.ID})
           IN published' = published \cup
                               {FinalizeMessage(f.Proposal, f.Passed, n, k)}
        /\ finalizers' = finalizers \ {f}
        /\ proposals' = [proposals EXCEPT ![n] = Del(@, f.Proposal.ID)]
        /\ detached' = IF /\ f.Proposal.ID \in DOMAIN proposals[n]
                          /\ proposals[n][f.Proposal.ID].Timer = "running"
                       THEN detached \cup {[node |-> n, pid |-> f.Proposal.ID]}
                       ELSE detached
        /\ UNCHANGED <<clusterNodes, mu, net, voters, unused, quota, expired,
                       depsLocking, allAgree, lastCall, callbacks, old>>
        /\ UNCHANGED <<decideVars, applyVars, restVars>>

\* HandleFinalize: a message of the finalize subject reaches node n.  Its
\* effect on the consensus state is MarkNodeHeard; OnFinalize is the hook.
HandleFinalize(n) ==
    \E fm \in published :
        /\ Dispatch(nodeRole[n], "finalize") = "HandleFinalize"
        /\ mu[n] = "free"
        /\ clusterNodes' = [clusterNodes EXCEPT
                               ![n] = markNodeHeard(@, fm.Proposal.SenderNodeID)]
        /\ UNCHANGED <<proposals, mu, net, voters, finalizers, unused, quota,
                       expired, depsLocking, allAgree, published, lastCall>>
        /\ UNCHANGED <<decideVars, applyVars, restVars, timerVars>>

\* A JOIN of node s reaches node n (every node re-broadcasts JOIN from its
\* heartbeat).  The payload is s's ThisNode, whose LastHeard is the time s
\* enabled its role: inside the active window or not.
handleClusterMessage(n) ==
    \E s \in NodeIDs, act \in BOOLEAN :
        /\ mu[n] = "free"
        /\ clusterNodes' = [clusterNodes EXCEPT
               ![n] = addNode(markNodeHeard(@, s), s, NodeInfo(NodeRoleOf(s), act))]
        /\ UNCHANGED <<proposals, mu, net, voters, finalizers, unused, quota,
                       expired, depsLocking, allAgree, published, lastCall>>
        /\ UNCHANGED <<decideVars, applyVars, restVars, timerVars>>

\* activeNodeWindow passes without a message from node id.  The heartbeat
\* refreshes a node's own entry every 90 s.
Expire(n) ==
    \E id \in DOMAIN clusterNodes[n] :
        /\ id # n
        /\ expired < MaxExpire
        /\ IsNodeActive(clusterNodes[n][id])
        /\ expired' = expired + 1
        /\ clusterNodes' = [clusterNodes EXCEPT ![n][id].active = FALSE]
        /\ UNCHANGED <<proposals, mu, net, voters, finalizers, unused, quota,
                       depsLocking, allAgree, published, lastCall>>
        /\ UNCHANGED <<decideVars, applyVars, restVars, timerVars>>

Next ==
    \/ \E n \in NodeIDs, key \in CheckKeys, status \in BOOLEAN :
           ProposeCheckStatus(n, key, status)
    \/ \E n \in NodeIDs : HandleProposal(n)
    \/ \E n \in NodeIDs : voteOnProposal(n)
    \/ \E n \in NodeIDs : HandleVote(n)
    \/ \E n \in NodeIDs : forceFinalize(n)
    \/ \E n \in NodeIDs : finalize(n)
    \/ \E n \in NodeIDs : HandleFinalize(n)
    \/ \E n \in NodeIDs : handleClusterMessage(n)
    \/ \E n \in NodeIDs : Expire(n)

Spec == Init /\ [][Next]_vars

\* The runs in which a node proposes a second time.
InitPropose ==
    /\ InitConsensus
    /\ InitClusterIdle
    /\ InitLocalIdle
    /\ InitAllMonitors
    /\ InitDecideIdle
    /\ InitApplyIdle
    /\ published = {}
    /\ clusterNodes = OwnRegistry
    /\ unused = ProposalIDs
    /\ quota = MaxProposePublish
    /\ depsLocking = FALSE
    /\ allAgree = TRUE

NextPropose ==
    \/ \E n \in NodeIDs, key \in CheckKeys, status \in BOOLEAN :
           ProposeCheckStatus(n, key, status)
    \/ \E n \in NodeIDs : HandleProposal(n)
    \/ \E n \in NodeIDs : voteOnProposal(n)
    \/ \E n \in NodeIDs : HandleVote(n)
    \/ \E n \in NodeIDs : forceFinalize(n)
    \/ \E n \in NodeIDs : finalize(n)

SpecPropose == InitPropose /\ [][NextPropose]_vars


\* ------------------------------------------------------ matrix notifier
\* makeKey of the one outage the calls are about.
makeKey == CheckKey(FALSE)

\* The sentinel NotifyMemberOffline stores while it announces.
sentinel == ""

\* The EventID the room returns for the message call i sent.
EventID(i) == <<"$event", i>>

\* A call: kind, position (pc), whether isReady() held, whether its send
\* returned an error, and how many calls had started when it returned.
Call(kind) == [kind |-> kind, pc |-> "isReady", ready |-> FALSE,
               failed |-> FALSE, target |-> sentinel, seen |-> 0]

\* A load that never stores.
LoadOnly(m, k, v) == m

\* sync.Map.LoadOrStore that leaves a stored value alone.
LoadOrStore(m, k, v) == IF k \in DOMAIN m THEN m ELSE Put(m, k, v)


Return(i) == [calls EXCEPT ![i].pc = "done", ![i].seen = Len(calls)]

\* A goroutine calls NotifyMemberOffline or NotifyMemberOnline.
callNotify(kind) ==
    /\ Len(calls) < MaxCalls
    /\ calls' = Append(calls, Call(kind))
    /\ UNCHANGED <<alertMap, room>>
    /\ UNCHANGED <<consVars, decideVars, applyVars, Local, nodeRole, eventVars, fleetVars, clusterVars>>

\* if !isReady() { return }
isReady(i) ==
    /\ calls[i].pc = "isReady"
    /\ \E ready \in BOOLEAN :
          calls' = IF ready
                   THEN [calls EXCEPT ![i].ready = TRUE,
                            ![i].pc = IF calls[i].kind = "offline"
                                      THEN "LoadOrStore" ELSE "Load"]
                   ELSE Return(i)
    /\ UNCHANGED <<alertMap, room>>
    /\ UNCHANGED <<consVars, decideVars, applyVars, Local, nodeRole, eventVars, fleetVars, clusterVars>>

\* NotifyMemberOffline: offlineMap.LoadOrStore(key, sentinel).
offlineLoadOrStore(i) ==
    /\ calls[i].pc = "LoadOrStore"
    /\ alertMap' = LoadOrStore(alertMap, makeKey, sentinel)
    /\ calls' = IF alertMap' = alertMap
                THEN Return(i)
                ELSE [calls EXCEPT ![i].pc = "announce"]
    /\ UNCHANGED room
    /\ UNCHANGED <<consVars, decideVars, applyVars, Local, nodeRole, eventVars, fleetVars, clusterVars>>

\* NotifyMemberOffline: sendFormattedText of the OFFLINE alert.
offlineSend(i) ==
    /\ calls[i].pc = "announce"
    /\ \E ok \in BOOLEAN :
          IF ok
          THEN /\ room' = Append(room, "OFFLINE")
               /\ calls' = [calls EXCEPT ![i].pc = "Store"]
          ELSE /\ room' = room
               /\ calls' = [calls EXCEPT ![i].pc = "DeleteOnError",
                                         ![i].failed = TRUE]
    /\ UNCHANGED alertMap
    /\ UNCHANGED <<consVars, decideVars, applyVars, Local, nodeRole, eventVars, fleetVars, clusterVars>>

\* NotifyMemberOffline: offlineMap.Store(key, evID).
offlineStore(i) ==
    /\ calls[i].pc = "Store"
    /\ alertMap' = Put(alertMap, makeKey, EventID(i))
    /\ calls' = Return(i)
    /\ UNCHANGED room
    /\ UNCHANGED <<consVars, decideVars, applyVars, Local, nodeRole, eventVars, fleetVars, clusterVars>>

\* NotifyMemberOffline: offlineMap.Delete(key) after the send failed.
offlineDeleteOnError(i) ==
    /\ calls[i].pc = "DeleteOnError"
    /\ alertMap' = Del(alertMap, makeKey)
    /\ calls' = Return(i)
    /\ UNCHANGED room
    /\ UNCHANGED <<consVars, decideVars, applyVars, Local, nodeRole, eventVars, fleetVars, clusterVars>>

\* NotifyMemberOnline: offlineMap.Load(key).
onlineLoad(i) ==
    /\ calls[i].pc = "Load"
    /\ calls' = IF makeKey \in DOMAIN alertMap /\ alertMap[makeKey] # sentinel
                THEN [calls EXCEPT ![i].pc = "edit",
                                   ![i].target = alertMap[makeKey]]
                ELSE [calls EXCEPT ![i].pc = "sendFresh"]
    /\ UNCHANGED <<alertMap, room>>
    /\ UNCHANGED <<consVars, decideVars, applyVars, Local, nodeRole, eventVars, fleetVars, clusterVars>>

\* NotifyMemberOnline: editFormattedText of the stored alert.
onlineEdit(i) ==
    /\ calls[i].pc = "edit"
    /\ \E ok \in BOOLEAN :
          IF ok
          THEN /\ room' = Append(room, "ONLINE")
               /\ calls' = [calls EXCEPT ![i].pc = "Delete"]
          ELSE /\ room' = room
               /\ calls' = [calls EXCEPT ![i].pc = "sendFresh"]
    /\ UNCHANGED alertMap
    /\ UNCHANGED <<consVars, decideVars, applyVars, Local, nodeRole, eventVars, fleetVars, clusterVars>>

\* NotifyMemberOnline: sendFormattedText of a fresh ONLINE message, whose
\* error is dropped.
onlineSendFresh(i) ==
    /\ calls[i].pc = "sendFresh"
    /\ \E ok \in BOOLEAN :
          room' = IF ok THEN Append(room, "ONLINE") ELSE room
    /\ calls' = [calls EXCEPT ![i].pc = "Delete"]
    /\ UNCHANGED alertMap
    /\ UNCHANGED <<consVars, decideVars, applyVars, Local, nodeRole, eventVars, fleetVars, clusterVars>>

\* NotifyMemberOnline: offlineMap.Delete(key).  The room log gets a mark
\* where the ONLINE notification is complete.
onlineDelete(i) ==
    /\ calls[i].pc = "Delete"
    /\ alertMap' = Del(alertMap, makeKey)
    /\ calls' = Return(i)
    /\ room' = Append(room, "cleared")
    /\ UNCHANGED <<consVars, decideVars, applyVars, Local, nodeRole, eventVars, fleetVars, clusterVars>>

InitMatrix ==
    /\ InitConsensus
    /\ InitClusterIdle
    /\ InitLocalIdle
    /\ InitAllMonitors
    /\ InitDecideIdle
    /\ InitApplyIdle
    /\ published = {}
    /\ clusterNodes = OwnRegistry
    /\ unused = {}
    /\ quota = 0
    /\ depsLocking = FALSE
    /\ allAgree = FALSE

NextMatrix ==
    \/ \E kind \in {"offline", "online"} : callNotify(kind)
    \/ \E i \in DOMAIN calls : isReady(i)
    \/ \E i \in DOMAIN calls : offlineLoadOrStore(i)
    \/ \E i \in DOMAIN calls : offlineSend(i)
    \/ \E i \in DOMAIN calls : offlineStore(i)
    \/ \E i \in DOMAIN calls : offlineDeleteOnError(i)
    \/ \E i \in DOMAIN calls : onlineLoad(i)
    \/ \E i \in DOMAIN calls : onlineEdit(i)
    \/ \E i \in DOMAIN calls : onlineSendFresh(i)
    \/ \E i \in DOMAIN calls : onlineDelete(i)

SpecMatrix == InitMatrix /\ [][NextMatrix]_vars

\* ------------------------------------------------------ roles
\* cacheCollatorProposal: a collator stores the proposal in the data2 cache,
\* outside the consensus state.
cacheCollatorProposal(n) ==
    \E m \in net :
        /\ m.to = n
        /\ Dispatch(nodeRole[n], m.msg.subject) = "CacheProposal"
        /\ net' = net \ {m}
        /\ UNCHANGED <<clusterNodes, proposals, mu, voters, finalizers, unused,
                       quota, expired, depsLocking, allAgree, published,
                       lastCall>>
        /\ UNCHANGED <<decideVars, applyVars, restVars, timerVars>>

\* No module of the node's role handles the message: Dispatch returns false.
notHandled(n) ==
    \E m \in net :
        /\ m.to = n
        /\ Dispatch(nodeRole[n], m.msg.subject) = "none"
        /\ net' = net \ {m}
        /\ UNCHANGED <<clusterNodes, proposals, mu, voters, finalizers, unused,
                       quota, expired, depsLocking, allAgree, published,
                       lastCall>>
        /\ UNCHANGED <<decideVars, applyVars, restVars, timerVars>>

\* The runs in which each node has enabled any of the three roles.
InitRoles ==
    /\ InitConsensus
    /\ InitClusterIdle
    /\ InitLocalIdle
    /\ InitDecideIdle
    /\ InitApplyIdle
    /\ nodeRole \in [NodeIDs -> {RoleMonitor, RoleCollator, RoleDns}]
    /\ published = {}
    /\ clusterNodes = OwnRegistry
    /\ unused = {"uuid-1"}
    /\ quota = MaxRolePublish
    /\ depsLocking = FALSE
    /\ allAgree = TRUE

NextRoles ==
    \/ \E n \in NodeIDs, key \in CheckKeys, status \in BOOLEAN :
           ProposeCheckStatus(n, key, status)
    \/ \E n \in NodeIDs : HandleProposal(n)
    \/ \E n \in NodeIDs : voteOnProposal(n)
    \/ \E n \in NodeIDs : HandleVote(n)
    \/ \E n \in NodeIDs : forceFinalize(n)
    \/ \E n \in NodeIDs : finalize(n)
    \/ \E n \in NodeIDs : HandleFinalize(n)
    \/ \E n \in NodeIDs : cacheCollatorProposal(n)
    \/ \E n \in NodeIDs : notHandled(n)
    \/ \E n \in NodeIDs : handleClusterMessage(n)

SpecRoles == InitRoles /\ [][NextRoles]_vars

\* ------------------------------------------------ timers and collection
\* A timer armed by time.AfterFunc(ProposalTimeout, forceFinalize) expires:
\* the runtime starts the forceFinalize call on a goroutine of its own.
timerFires(n) ==
    /\ \/ \E pid \in DOMAIN proposals[n] :
             /\ proposals[n][pid].Timer = "running"
             /\ proposals' = [proposals EXCEPT ![n][pid].Timer = "fired"]
             /\ callbacks' = callbacks \cup {[node |-> n, pid |-> pid]}
             /\ UNCHANGED detached
       \/ \E d \in detached :
             /\ d.node = n
             /\ detached' = detached \ {d}
             /\ callbacks' = callbacks \cup {d}
             /\ UNCHANGED proposals
    /\ UNCHANGED <<clusterNodes, mu, net, voters, finalizers, unused, quota,
                   expired, depsLocking, allAgree, published, lastCall, old>>
    /\ UNCHANGED <<decideVars, applyVars, restVars>>

\* The forceFinalize call such a goroutine makes, whenever it gets to run.
forceFinalizeCall(n) ==
    \E cb \in callbacks :
        /\ cb.node = n
        /\ mu[n] = "free"
        /\ callbacks' = callbacks \ {cb}
        /\ IF cb.pid \notin DOMAIN proposals[n]
           THEN UNCHANGED <<proposals, mu, finalizers, detached>>
           ELSE LET pt == proposals[n][cb.pid]
                    after == decideLocked(clusterNodes[n], pt)
                IN IF pt.Finalized
                   THEN UNCHANGED <<proposals, mu, finalizers, detached>>
                   ELSE IF depsLocking
                   THEN /\ mu' = [mu EXCEPT ![n] = "stuck"]
                        /\ UNCHANGED <<proposals, finalizers, detached>>
                   ELSE IF after.Finalized
                   THEN /\ proposals' = [proposals EXCEPT
                                            ![n] = Put(@, cb.pid, after)]
                        /\ finalizers' = finalizers \cup
                               {[node |-> n, Proposal |-> after.Proposal,
                                 Passed |-> after.Passed]}
                        /\ UNCHANGED <<mu, detached>>
                   ELSE /\ proposals' = [proposals EXCEPT
                                            ![n][cb.pid].Timer = "running"]
                        /\ detached' = IF pt.Timer = "running"
                                       THEN detached \cup {cb}
                                       ELSE detached
                        /\ UNCHANGED <<mu, finalizers>>
        /\ UNCHANGED <<clusterNodes, net, voters, unused, quota, expired,
                       depsLocking, allAgree, published, lastCall, old>>
        /\ UNCHANGED <<decideVars, applyVars, restVars>>

\* Ten minutes have passed since the Timestamp of a proposal.
TimestampAges ==
    \E pid \in (ProposalIDs \ unused) \ old :
        /\ old' = old \cup {pid}
        /\ UNCHANGED <<clusterNodes, proposals, mu, net, voters, finalizers,
                       unused, quota, expired, depsLocking, allAgree, published,
                       lastCall, callbacks, detached>>
        /\ UNCHANGED <<decideVars, applyVars, restVars>>

\* One scan of cleanOldProposals that finds something to drop: Timer.Stop,
\* then delete, for every entry whose Timestamp is old.
cleanOldProposals(n) ==
    /\ nodeRole[n] \in {RoleMonitor, RoleCollator}
    /\ mu[n] = "free"
    /\ DOMAIN proposals[n] \cap old # {}
    /\ proposals' = [proposals EXCEPT
                        ![n] = [pid \in (DOMAIN @) \ old |-> @[pid]]]
    /\ UNCHANGED <<clusterNodes, mu, net, voters, finalizers, unused, quota,
                   expired, depsLocking, allAgree, published, lastCall,
                   timerVars>>
    /\ UNCHANGED <<decideVars, applyVars, restVars>>

InitTimer ==
    /\ InitConsensus
    /\ InitClusterIdle
    /\ InitLocalIdle
    /\ InitAllMonitors
    /\ InitDecideIdle
    /\ InitApplyIdle
    /\ published = {}
    /\ clusterNodes \in {OwnRegistry, FullRegistry}
    /\ unused = {"uuid-1"}
    /\ quota = MaxTimerPublish
    /\ depsLocking \in BOOLEAN
    /\ allAgree = TRUE

NextTimer ==
    \/ \E n \in NodeIDs, key \in CheckKeys, status \in BOOLEAN :
           ProposeCheckStatus(n, key, status)
    \/ \E n \in NodeIDs : HandleProposal(n)
    \/ \E n \in NodeIDs : voteOnProposal(n)
    \/ \E n \in NodeIDs : HandleVote(n)
    \/ \E n \in NodeIDs : timerFires(n)
    \/ \E n \in NodeIDs : forceFinalizeCall(n)
    \/ \E n \in NodeIDs : finalize(n)
    \/ \E n \in NodeIDs : cleanOldProposals(n)
    \/ TimestampAges

\* Timers expire, started goroutines run, published messages are delivered,
\* time passes and the collector's ticker keeps ticking.
FairnessTimer ==
    /\ WF_vars(TimestampAges)
    /\ \A n \in NodeIDs :
          /\ WF_vars(HandleProposal(n))
          /\ WF_vars(voteOnProposal(n))
          /\ WF_vars(HandleVote(n))
          /\ WF_vars(timerFires(n))
          /\ WF_vars(forceFinalizeCall(n))
          /\ WF_vars(finalize(n))
          /\ WF_vars(cleanOldProposals(n))

SpecTimer == InitTimer /\ [][NextTimer]_vars /\ FairnessTimer

\* ------------------------------------------------ voting on local results
\* The monitor's check loop stores an observation.
UpdateLocalEndpointResult(n, key, status) ==
    /\ Local[n].modelled
    /\ Local' = [Local EXCEPT
                    ![n].results = UpdateLocalResult(@, key, status)]
    /\ UNCHANGED <<consVars, decideVars, applyVars, nodeRole, matrixVars, eventVars, fleetVars, clusterVars>>

\* The runs in which every node's result store is modelled.
InitVote ==
    /\ InitConsensus
    /\ InitClusterIdle
    /\ InitAllMonitors
    /\ InitDecideIdle
    /\ InitApplyIdle
    /\ published = {}
    /\ clusterNodes = FullRegistry
    /\ unused = {"uuid-1"}
    /\ quota = MaxVotePublish
    /\ depsLocking = FALSE
    /\ allAgree = FALSE
    /\ Local \in [NodeIDs -> {[modelled |-> TRUE, results |-> r] :
                                  r \in LocalStores}]

NextVote ==
    \/ \E n \in NodeIDs, key \in CheckKeys, status \in BOOLEAN :
           ProposeCheckStatus(n, key, status)
    \/ \E n \in NodeIDs : HandleProposal(n)
    \/ \E n \in NodeIDs : voteOnProposal(n)
    \/ \E n \in NodeIDs : HandleVote(n)
    \/ \E n \in NodeIDs : forceFinalize(n)
    \/ \E n \in NodeIDs : finalize(n)
    \/ \E n \in NodeIDs, key \in LocalKeys, status \in BOOLEAN :
           UpdateLocalEndpointResult(n, key, status)

SpecVote == InitVote /\ [][NextVote]_vars

\* Scheduling: every goroutine that was started runs, every message that was
\* published is delivered, every timer that runs fires.
Fairness ==
    \A n \in NodeIDs :
        /\ WF_vars(HandleProposal(n))
        /\ WF_vars(voteOnProposal(n))
        /\ WF_vars(HandleVote(n))
        /\ WF_vars(forceFinalize(n))
        /\ WF_vars(finalize(n))

\* The runs in which every local result store holds the proposed status.
InitLive ==
    /\ InitConsensus
    /\ InitClusterIdle
    /\ InitLocalIdle
    /\ InitAllMonitors
    /\ InitDecideIdle
    /\ InitApplyIdle
    /\ published = {}
    /\ clusterNodes \in {OwnRegistry, FullRegistry}
    /\ unused = {"uuid-1"}
    /\ quota = MaxPublish
    /\ depsLocking \in BOOLEAN
    /\ allAgree = TRUE

SpecLive == InitLive /\ [][NextPropose]_vars /\ Fairness

\* ---------------------------------------------------- decideLocked alone
DecideIDs == {"monitor1", "monitor2", "probe2"}

DecideRoles == {RoleMonitor, RoleDns, RoleUnknown}

Registries ==
    UNION {[ids -> {NodeInfo(r, a) : r \in DecideRoles, a \in BOOLEAN}] :
              ids \in SUBSET DecideIDs}

VoteMaps == UNION {[ids -> BOOLEAN] : ids \in SUBSET DecideIDs}

InitDecide ==
    /\ InitConsensus
    /\ InitClusterIdle
    /\ InitLocalIdle
    /\ InitAllMonitors
    /\ InitApplyIdle
    /\ published = {}
    /\ clusterNodes = OwnRegistry
    /\ unused = {}
    /\ quota = 0
    /\ depsLocking = FALSE
    /\ allAgree = FALSE
    /\ \E reg \in Registries, votes \in VoteMaps :
          dIn = [reg |-> reg,
                 pt |-> [NewTracking(Proposal("uuid-1", "monitor1", CheckKey(FALSE),
                                              FALSE))
                            EXCEPT !.Votes = votes]]
    /\ dOut = [done |-> FALSE, pt |-> dIn.pt]

\* One call decideLocked(deps, pt) with a CountActiveMonitors that returns.
decideLockedCall ==
    /\ ~dOut.done
    /\ dOut' = [done |-> TRUE, pt |-> decideLocked(dIn.reg, dIn.pt)]
    /\ UNCHANGED <<dIn, consVars, applyVars, restVars>>

SpecDecide == InitDecide /\ [][decideLockedCall]_vars

\* ------------------------------------------------------- finalize hook
\* UpdateOfficial{Site,Domain,Endpoint}Result: replace-or-append the member's
\* result under the check key.
UpdateOfficialResult(store, prop) ==
    Put(store, KeyOf(prop), prop.ProposedStatus)

\* An update that records an event for every offline status it is given.
RecordedEventsAlways(store, prop) ==
    IF ~prop.ProposedStatus
    THEN <<[key |-> KeyOf(prop), status |-> FALSE]>> ELSE <<>>

\* The RecordEvent calls the same update starts: on first insertion when the
\* status is offline, afterwards when the status differs from the stored one.
RecordedEvents(store, prop) ==
    IF KeyOf(prop) \notin DOMAIN store
    THEN IF ~prop.ProposedStatus
         THEN <<[key |-> KeyOf(prop), status |-> FALSE]>> ELSE <<>>
    ELSE IF store[KeyOf(prop)] # prop.ProposedStatus
         THEN <<[key |-> KeyOf(prop), status |-> prop.ProposedStatus]>>
         ELSE <<>>

\* DecidedAt of a FinalizeMessage: one clock reading per decision.
DecidedAt(fm) == <<fm.Proposal.ID, fm.by, fm.k>>

\* A member_events row; status 0 is an open outage (end_time NULL).  The
\* table's unique key is (check key, status, start_time).
Row(key, start, status) == [key |-> key, start |-> start, status |-> status]

\* INSERT ... ON DUPLICATE KEY UPDATE of an outage that starts at start.
InsertNetStatus(rws, key, start) == rws \cup {Row(key, start, 0)}

\* The rows UPDATE ... WHERE status=0 AND end_time IS NULL matches.
OpenRows(rws, key) == {r \in rws : r.key = key /\ r.status = 0}

\* The UPDATE sets status = 1 on them; it fails as a whole on a duplicate key.
CloseFails(rws, key) ==
    \E r \in OpenRows(rws, key) : Row(r.key, r.start, 1) \in rws

CloseOpenEvent(rws, key) ==
    IF CloseFails(rws, key) THEN rws
    ELSE (rws \ OpenRows(rws, key))
            \cup {Row(r.key, r.start, 1) : r \in OpenRows(rws, key)}

\* ready is isReady(); sendOk is whether sendFormattedText returns no error.
NotifyMemberOffline(omap, key, ready, sendOk) ==
    IF ~ready THEN omap
    ELSE IF key \in omap THEN omap
    ELSE IF sendOk THEN omap \cup {key}
    ELSE omap

NotifyMemberOnline(omap, key, ready) ==
    IF ~ready THEN omap ELSE omap \ {key}

\* The proposals whose FinalizeMessages the hook is given: for one check,
\* first P1 (offline) passed, then P2 (online) passed; P0 did not pass.
P0 == Proposal("uuid-0", "probe2", CheckKey(FALSE), FALSE)
P1 == Proposal("uuid-1", "monitor1", CheckKey(FALSE), FALSE)
P2 == Proposal("uuid-2", "monitor1", CheckKey(FALSE), TRUE)

\* Every deciding monitor publishes its own FinalizeMessage.
PublishedFinals ==
    {FinalizeMessage(P1, TRUE, d, 0) : d \in NodeIDs}
        \cup {FinalizeMessage(P2, TRUE, d, 0) : d \in NodeIDs}
        \cup {FinalizeMessage(P0, FALSE, "probe2", 0)}

InitApply ==
    /\ InitConsensus
    /\ InitClusterIdle
    /\ InitLocalIdle
    /\ InitAllMonitors
    /\ InitDecideIdle
    /\ clusterNodes = FullRegistry
    /\ unused = {}
    /\ quota = 0
    /\ depsLocking = FALSE
    /\ allAgree = FALSE
    /\ published = PublishedFinals
    /\ recipientRole \in {RoleMonitor, RoleCollator}
    /\ official = EmptyMap
    /\ recorded = <<>>
    /\ rows = {}
    /\ offlineMap = {}
    /\ handled = [fm \in PublishedFinals |-> 0]
    /\ lastHandled = NoHandled

\* applyOfficialChanges with the check and the member found in the config.
applyOfficialChanges(prop) ==
    /\ official' = UpdateOfficialResult(official, prop)
    /\ recorded' = recorded \o RecordedEvents(official, prop)
    /\ UNCHANGED <<rows, offlineMap>>

handleCollatorFinalize(fm, ready, sendOk) ==
    LET key == KeyOf(fm.Proposal)
    IN /\ IF ~fm.Proposal.ProposedStatus
          THEN /\ rows' = InsertNetStatus(rows, key, DecidedAt(fm))
               /\ offlineMap' = NotifyMemberOffline(offlineMap, key, ready, sendOk)
          ELSE /\ rows' = CloseOpenEvent(rows, key)
               /\ offlineMap' = IF CloseFails(rows, key) THEN offlineMap
                                ELSE NotifyMemberOnline(offlineMap, key, ready)
       /\ UNCHANGED <<official, recorded>>

\* Whether the Matrix side of handling fm went through: the client was ready
\* and the OFFLINE alert is in offlineMap afterwards.
Notified(fm, ready, sendOk) ==
    /\ ready
    /\ \/ fm.Proposal.ProposedStatus
       \/ sendOk
       \/ KeyOf(fm.Proposal) \in offlineMap

\* OnFinalize as finalize and HandleFinalize call it on one node.
onConsensusFinalize(fm, ready, sendOk) ==
    /\ handled[fm] < MaxHandle
    /\ handled' = [handled EXCEPT ![fm] = @ + 1]
    /\ lastHandled' = [fm |-> fm, notified |-> Notified(fm, ready, sendOk),
                       again |-> (lastHandled.fm = fm)]
    /\ IF ~fm.Passed
       THEN UNCHANGED <<official, recorded, rows, offlineMap>>
       ELSE IF recipientRole = RoleMonitor
            THEN applyOfficialChanges(fm.Proposal)
       ELSE IF recipientRole = RoleCollator
            THEN handleCollatorFinalize(fm, ready, sendOk)
       ELSE UNCHANGED <<official, recorded, rows, offlineMap>>
    /\ UNCHANGED <<recipientRole, consVars, decideVars, restVars>>

NextApply ==
    \E fm \in published, ready \in BOOLEAN, sendOk \in BOOLEAN :
        onConsensusFinalize(fm, ready, sendOk)

SpecApply == InitApply /\ [][NextApply]_vars



\* ------------------------------------------------------ event recorder
\* A RecordEvent goroutine: its status argument, its position, the row id
\* FindOpenOfflineEvent gave it (0 for none), the row's start_time, and the
\* time of the status change that started it.
Recorder(status) == [status |-> status, pc |-> "Find", found |-> 0,
                     start |-> 0, at |-> clock]

\* A row of member_events as RecordEvent writes it (status = FALSE always).
EventRow(id, key, start) ==
    [id |-> id, key |-> key, start |-> start, open |-> TRUE, end |-> 0]

\* WHERE ... status = FALSE AND end_time IS NULL.
OpenEvents(evs, key) == {r \in evs : r.key = key /\ r.open}

\* DELETE FROM member_events WHERE id = ?
DeleteEvent(evs, id) == {r \in evs : r.id # id}

\* UPDATE member_events SET end_time = ? WHERE id = ?
UpdateEventEndTime(evs, id, endTime) ==
    {IF r.id = id THEN [r EXCEPT !.open = FALSE, !.end = endTime] ELSE r : r \in evs}

\* UpdateOfficialSiteResult (Domain and Endpoint alike) for the one check and
\* member, with the goroutines it starts.
UpdateOfficialSiteResult(status) ==
    LET prop == IF status THEN P2 ELSE P1
        evs == RecordedEvents(official, prop)
    IN /\ Len(recorders) < MaxRecord
       /\ official' = UpdateOfficialResult(official, prop)
       /\ recorded' = recorded \o evs
       /\ recorders' = recorders \o [k \in DOMAIN evs |-> Recorder(evs[k].status)]
       /\ UNCHANGED <<events, clock>>
       /\ UNCHANGED <<recipientRole, rows, offlineMap, handled, lastHandled>>
       /\ UNCHANGED <<consVars, decideVars, Local, nodeRole, matrixVars, fleetVars, clusterVars>>

\* Time passes.
Tick ==
    /\ clock + TickSeconds <= MaxClock
    /\ clock' = clock + TickSeconds
    /\ UNCHANGED <<events, recorders>>
    /\ UNCHANGED <<consVars, decideVars, applyVars, Local, nodeRole, matrixVars, fleetVars, clusterVars>>

\* RecordEvent: FindOpenOfflineEvent and the branch on its result.
recordFind(i) ==
    /\ recorders[i].pc = "Find"
    /\ IF OpenEvents(events, makeKey) = {}
       THEN recorders' = [recorders EXCEPT ![i].pc =
                              IF recorders[i].status THEN "done" ELSE "Insert"]
       ELSE \E r \in OpenEvents(events, makeKey) :
               recorders' = [recorders EXCEPT
                               ![i].pc = IF recorders[i].status THEN "Close" ELSE "done",
                               ![i].found = r.id,
                               ![i].start = r.start]
    /\ UNCHANGED <<events, clock>>
    /\ UNCHANGED <<consVars, decideVars, applyVars, Local, nodeRole, matrixVars, fleetVars, clusterVars>>

\* RecordEvent(status = false): InsertEvent with StartTime = time.Now().
recordInsert(i) ==
    /\ recorders[i].pc = "Insert"
    /\ events' = events \cup {EventRow(i, makeKey, clock)}
    /\ recorders' = [recorders EXCEPT ![i].pc = "done"]
    /\ UNCHANGED clock
    /\ UNCHANGED <<consVars, decideVars, applyVars, Local, nodeRole, matrixVars, fleetVars, clusterVars>>

\* RecordEvent(status = true): delete the row of a short outage, set the end
\* time of a longer one.
recordClose(i) ==
    /\ recorders[i].pc = "Close"
    /\ events' = IF clock - recorders[i].start < ShortFlap
                 THEN DeleteEvent(events, recorders[i].found)
                 ELSE UpdateEventEndTime(events, recorders[i].found, clock)
    /\ recorders' = [recorders EXCEPT ![i].pc = "done"]
    /\ UNCHANGED clock
    /\ UNCHANGED <<consVars, decideVars, applyVars, Local, nodeRole, matrixVars, fleetVars, clusterVars>>

InitEvents ==
    /\ InitConsensus
    /\ InitClusterIdle
    /\ InitLocalIdle
    /\ InitAllMonitors
    /\ InitDecideIdle
    /\ published = {}
    /\ clusterNodes = OwnRegistry
    /\ unused = {}
    /\ quota = 0
    /\ depsLocking = FALSE
    /\ allAgree = FALSE
    /\ recipientRole = RoleMonitor
    /\ official \in {EmptyMap, Put(EmptyMap, makeKey, TRUE)}
    /\ recorded = <<>>
    /\ rows = {}
    /\ offlineMap = {}
    /\ handled = [fm \in {} |-> 0]
    /\ lastHandled = NoHandled

NextEvents ==
    \/ \E status \in BOOLEAN : UpdateOfficialSiteResult(status)
    \/ Tick
    \/ \E i \in DOMAIN recorders : recordFind(i)
    \/ \E i \in DOMAIN recorders : recordInsert(i)
    \/ \E i \in DOMAIN recorders : recordClose(i)

SpecEvents == InitEvents /\ [][NextEvents]_vars


\* ------------------------------------------------------ usage table
\* SQL NULL.
NULL == "<NULL>"

\* nullOrEmpty: the empty string becomes NULL.
nullOrEmpty(str) == IF str = "" THEN NULL ELSE str

\* The UsageRecords of the runs: two origins, a network that the GeoIP
\* lookup named or did not name, two totals.
UsageKey(node, asn) ==
    [Date |-> "2025-01-01", NodeID |-> node, Domain |-> "rpc.example",
     MemberName |-> "m1", Asn |-> asn, NetworkName |-> "net",
     CountryCode |-> "DE", CountryName |-> "Germany", IsIPv6 |-> FALSE]

UsageKeys == {UsageKey(node, asn) : node \in {"dns1", "dns2"}, asn \in {"AS1", ""}}

UsageHits == {3, 7}

\* The key columns as UpsertUsage binds them.
BoundKey(key) ==
    [key EXCEPT !.Domain = nullOrEmpty(@), !.MemberName = nullOrEmpty(@),
                !.Asn = nullOrEmpty(@), !.NetworkName = nullOrEmpty(@),
                !.CountryCode = nullOrEmpty(@), !.CountryName = nullOrEmpty(@)]

\* A primary-key column does not take NULL: the INSERT fails.
HasNullKeyColumn(bound) ==
    NULL \in {bound.Domain, bound.MemberName, bound.Asn, bound.NetworkName,
              bound.CountryCode, bound.CountryName}

\* INSERT ... ON DUPLICATE KEY UPDATE hits = VALUES(hits).
UpsertRow(table, bound, hits) ==
    IF HasNullKeyColumn(bound) THEN table
    ELSE {r \in table : r.key # bound} \cup {[key |-> bound, hits |-> hits]}

\* UpsertUsage(r) with r = (key, hits); err is what it returns.
UpsertUsage(key, hits) ==
    /\ Len(upserts) < MaxUpsert
    /\ requests' = UpsertRow(requests, BoundKey(key), hits)
    /\ upserts' = Append(upserts, [key |-> key, hits |-> hits,
                                   err |-> HasNullKeyColumn(BoundKey(key))])
    /\ UNCHANGED <<coreVars, gatherVars, respondVars>>

InitUsage ==
    /\ InitConsensus
    /\ InitClusterIdle
    /\ InitLocalIdle
    /\ InitAllMonitors
    /\ InitDecideIdle
    /\ InitApplyIdle
    /\ published = {}
    /\ clusterNodes = OwnRegistry
    /\ unused = {}
    /\ quota = 0
    /\ depsLocking = FALSE
    /\ allAgree = FALSE

NextUsage == \E key \in UsageKeys, hits \in UsageHits : UpsertUsage(key, hits)

SpecUsage == InitUsage /\ [][NextUsage]_vars


\* ------------------------------------------------------ scatter/gather
\* A core.UsageRecord of a response.
UsageRec(node, domain, member, hits) ==
    [Date |-> "2025-01-01", NodeID |-> node, Domain |-> domain,
     MemberName |-> member, Asn |-> "AS1", NetworkName |-> "net",
     CountryCode |-> "DE", CountryName |-> "Germany", IsIPv6 |-> FALSE,
     Hits |-> hits]

\* The payloads a node may answer with: nothing, or one record.
Payloads(node) ==
    IF node = "dns1"
    THEN {<<>>, <<UsageRec(node, "rpc.example", "m1", 7)>>,
          <<UsageRec(node, "rpc.example|m1", "x", 5)>>}
    ELSE {<<UsageRec(node, "rpc.example", "m1", 5)>>,
          <<UsageRec(node, "rpc.example", "m1|x", 5)>>}

\* The key of the spec: the seven fields as a tuple.
KeyTuple(rec) ==
    <<rec.Date, rec.Domain, rec.MemberName, rec.CountryCode, rec.Asn,
      rec.NetworkName, rec.CountryName>>

\* fmt.Sprintf("%s|%s|%s|%s|%s|%s|%s", ...): the key of aggregateMap.
AggregateKey(rec) ==
    rec.Date \o "|" \o rec.Domain \o "|" \o rec.MemberName \o "|"
        \o rec.CountryCode \o "|" \o rec.Asn \o "|" \o rec.NetworkName
        \o "|" \o rec.CountryName

\* The records of a responseMap, each named by its origin and position.
Slots(rm) == UNION {{<<n, i>> : i \in DOMAIN rm[n]} : n \in DOMAIN rm}

RECURSIVE SumHits(_, _)
SumHits(rm, S) ==
    IF S = {} THEN 0
    ELSE LET sl == CHOOSE x \in S : TRUE
         IN rm[sl[1]][sl[2]].Hits + SumHits(rm, S \ {sl})

\* The lists the aggregation loop of usage.RequestAll can return: per
\* aggregateMap key the record met first (map iteration order), with the
\* Hits of all records of that key added.
Aggregations(rm) ==
    LET keys == {AggregateKey(rm[sl[1]][sl[2]]) : sl \in Slots(rm)}
        of(k) == {sl \in Slots(rm) : AggregateKey(rm[sl[1]][sl[2]]) = k}
    IN {{[rm[f[k][1]][f[k][2]] EXCEPT !.Hits = SumHits(rm, of(k))] : k \in keys} :
            f \in {g \in [keys -> Slots(rm)] : \A k \in keys : g[k] \in of(k)}}

\* stats.RequestAll appends the events of every origin.
Concatenations(rm) == {{rm[sl[1]][sl[2]] : sl \in Slots(rm)}}

\* A test that is satisfied by the first response.
ReachedAny(rm, expected) == Cardinality(DOMAIN rm) >= 1

\* len(responseMap) >= expected.
ReachedExpected(rm, expected) == Cardinality(DOMAIN rm) >= expected

\* A count that is never found to be zero.
NeverNoPeers(expected) == FALSE

\* if dnsCount == 0 { return nil, error }
NoPeers(expected) == expected = 0

\* The handler's dedup: the stored response of an origin stays.
StoreFirst(rm, resp) ==
    IF resp.NodeID \in DOMAIN rm THEN rm ELSE Put(rm, resp.NodeID, resp.records)

\* RequestAll up to the wait loop, as collectOnce (usage) or a downtime
\* query calls it: the first call, or the call of the next tick after one
\* that failed.  The runs end with the call that publishes a request.
RequestAll(flow) ==
    /\ gather.pc \in {"idle", "failed"}
    /\ LET expected == Cardinality(peers)
       IN gather' = [pc |-> IF NoPeers(expected) THEN "failed" ELSE "wait",
                     flow |-> flow, expected |-> expected,
                     subscribed |-> ~NoPeers(expected),
                     published |-> ~NoPeers(expected),
                     elapsed |-> 0, before |-> requests,
                     failedBefore |-> (gather.failedBefore \/ gather.pc = "failed"),
                     used |-> EmptyMap, result |-> {}]
    /\ responseMap' = EmptyMap
    /\ inbox' = <<>>
    /\ handlers' = {}
    /\ UNCHANGED <<peers, usageVars, respondVars, coreVars>>

\* The registry of the caller gains or loses an active node of the role.
registryChanges(n) ==
    /\ gather.pc \in {"idle", "failed"}
    /\ peers' = IF n \in peers THEN peers \ {n} ELSE peers \cup {n}
    /\ UNCHANGED <<gather, responseMap, inbox, handlers, usageVars, respondVars, coreVars>>

\* A response arrives on the inbox; Subscribe starts a goroutine for it.
receiveResponse(node, records) ==
    /\ gather.pc = "wait"
    /\ Len(inbox) < MaxResponses
    /\ inbox' = Append(inbox, [NodeID |-> node, records |-> records])
    /\ handlers' = handlers \cup {Len(inbox) + 1}
    /\ UNCHANGED <<peers, gather, responseMap, usageVars, respondVars, coreVars>>

\* The goroutine of response i runs the subscription callback.
responseHandler(i) ==
    /\ i \in handlers
    /\ handlers' = handlers \ {i}
    /\ responseMap' = StoreFirst(responseMap, inbox[i])
    /\ UNCHANGED <<peers, gather, inbox, usageVars, respondVars, coreVars>>

\* The done: label of RequestAll and its return.
Returns(g, rm) ==
    \E res \in IF g.flow = "usage" THEN Aggregations(rm) ELSE Concatenations(rm) :
        gather' = [g EXCEPT !.pc = IF g.flow = "usage" THEN "done" ELSE "stored",
                            !.subscribed = FALSE,
                            !.used = rm, !.result = res]

\* case <-ticker.C
caseTicker ==
    /\ gather.pc = "wait"
    /\ gather.elapsed < TimeoutPolls
    /\ LET g == [gather EXCEPT !.elapsed = @ + 1]
       IN IF ReachedExpected(responseMap, gather.expected)
          THEN Returns(g, responseMap)
          ELSE gather' = g
    /\ UNCHANGED <<peers, responseMap, inbox, handlers, usageVars, respondVars, coreVars>>

\* case <-timer.C
caseTimer ==
    /\ gather.pc = "wait"
    /\ gather.elapsed = TimeoutPolls
    /\ Returns(gather, responseMap)
    /\ UNCHANGED <<peers, responseMap, inbox, handlers, usageVars, respondVars, coreVars>>

RECURSIVE StoreUsageRecords(_, _)
StoreUsageRecords(table, recs) ==
    IF recs = {} THEN table
    ELSE LET r == CHOOSE x \in recs : TRUE
             key == [f \in DOMAIN r \ {"Hits"} |-> r[f]]
         IN StoreUsageRecords(UpsertRow(table, BoundKey(key), r.Hits), recs \ {r})

\* collectOnce after RequestAllDnsUsage returned records.
collectOnce ==
    /\ gather.pc = "done"
    /\ requests' = StoreUsageRecords(requests, gather.result)
    /\ gather' = [gather EXCEPT !.pc = "stored"]
    /\ UNCHANGED <<upserts, peers, responseMap, inbox, handlers, respondVars, coreVars>>

\* No call has been made and the registry holds no peer of the role yet.
InitGather == InitUsage

NextGather ==
    \/ \E flow \in {"usage", "downtime"} : RequestAll(flow)
    \/ \E n \in Origins : registryChanges(n)
    \/ \E n \in Origins : \E records \in Payloads(n) : receiveResponse(n, records)
    \/ \E i \in handlers : responseHandler(i)
    \/ caseTicker
    \/ caseTimer
    \/ collectOnce

\* The ticker and the timer fire.
FairnessGather == WF_vars(caseTicker) /\ WF_vars(caseTimer)

SpecGather == InitGather /\ [][NextGather]_vars /\ FairnessGather


\* ------------------------------------------------------ responder
\* A request as the responder sees it: the flow, the reply subject of the
\* message, whether its body parses, whether its start is after its end, and
\* whether the local query succeeds.
Requests ==
    [flow : {"usage", "downtime"}, reply : {"", "_INBOX.collator.1"},
     parses : BOOLEAN, startAfterEnd : BOOLEAN, queryOk : BOOLEAN]

\* deps.UsageDataSubject / deps.StatsDataSubject as the bridges set them.
DataSubject(flow) == IF flow = "usage" THEN "dnsUsageData" ELSE "monitorStatsData"

\* The records the local query returns when it succeeds.
LocalRecords == <<"record">>

Response(records, error) == [NodeID |-> "dns1", records |-> records, Error |-> error]

\* What HandleRequest publishes for a request: a sequence of
\* (subject, response).
HandleRequest(req) ==
    IF ~req.parses
    THEN IF req.reply # ""
         THEN <<[subject |-> req.reply, resp |-> Response(<<>>, "unmarshal error")]>>
         ELSE <<>>
    ELSE IF req.startAfterEnd
    THEN IF req.reply # ""
         THEN <<[subject |-> req.reply,
                 resp |-> Response(<<>>, "start must be before or equal to end")]>>
         ELSE <<>>
    ELSE LET resp == Response(IF req.queryOk THEN LocalRecords ELSE <<>>, "")
         IN IF req.reply # ""
            THEN <<[subject |-> req.reply, resp |-> resp]>>
            ELSE IF DataSubject(req.flow) # ""
            THEN <<[subject |-> DataSubject(req.flow), resp |-> resp]>>
            ELSE <<>>

\* The router hands a request to the responder.
receiveRequest(req) ==
    /\ incoming = <<>>
    /\ Len(served) < MaxRequests
    /\ incoming' = <<req>>
    /\ UNCHANGED <<served, usageVars, gatherVars, coreVars>>

\* handleDnsUsageRequest / handleMonitorStatsRequest.
handleRequest ==
    /\ incoming # <<>>
    /\ served' = Append(served, [req |-> incoming[1],
                                 out |-> HandleRequest(incoming[1])])
    /\ incoming' = <<>>
    /\ UNCHANGED <<usageVars, gatherVars, coreVars>>

NextRespond ==
    \/ \E req \in Requests : receiveRequest(req)
    \/ handleRequest

SpecRespond == InitUsage /\ [][NextRespond]_vars


\* ------------------------------------------------ registry with LastHeard
\* Sender fields of the cluster messages a node can receive.  A JOIN carries
\* State.ThisNode of its sender, whose LastHeard is the time the sender
\* enabled its role.
Senders ==
    {NodeEntry("monitor2", RoleMonitor, StartTime),
     NodeEntry("monitor2", RoleCollator, StartTime),
     NodeEntry("probe2", RoleCollator, StartTime),
     NodeEntry("probe2", RoleMonitor, StartTime),
     NodeEntry("probe2", RoleUnknown, StartTime),
     NodeEntry("", RoleMonitor, StartTime)}

ClusterMessages ==
    {[Type |-> "join", Sender |-> n] : n \in Senders}
    \cup {[Type |-> "other", Sender |-> n] :
            n \in {NodeEntry("monitor2", RoleMonitor, StartTime)}}

\* markNodeHeard as it writes a registry at time now.
MarkHeard(reg, id, now) ==
    IF id = "" THEN reg
    ELSE LET n == IF id \in DOMAIN reg THEN reg[id] ELSE NodeEntry(id, "", 0)
             role == IF n.NodeRole = "" THEN guessRoleFromID(id) ELSE n.NodeRole
         IN Put(reg, id, [n EXCEPT !.NodeRole = role, !.LastHeard = now])

\* addNode with the guard dropped: every JOIN with a role replaces the entry.
AddAlways(reg, n) ==
    IF n.NodeID = "" THEN reg
    ELSE IF n.NodeID \notin DOMAIN reg \/ n.NodeRole # ""
         THEN Put(reg, n.NodeID, n)
         ELSE reg

\* addNode: the whole NodeInfo of the message replaces a missing entry or
\* one without a role.
AddOrMerge(reg, n) ==
    IF n.NodeID = "" THEN reg
    ELSE IF n.NodeID \notin DOMAIN reg
            \/ (reg[n.NodeID].NodeRole = "" /\ n.NodeRole # "")
         THEN Put(reg, n.NodeID, n)
         ELSE reg

\* IsNodeActive at time now.
ActiveAt(n, now) ==
    n.NodeID # "" /\ n.LastHeard # 0 /\ now - n.LastHeard < activeNodeWindow

\* CountActiveMonitors / CountActiveDns at time now.
CountActive(reg, role, now) ==
    Cardinality({id \in DOMAIN reg : reg[id].NodeRole = role /\ ActiveAt(reg[id], now)})

\* cleanStaleNodes without the test for the node's own id.
EvictAll(reg, self, now) ==
    [id \in {i \in DOMAIN reg :
                ~(reg[i].LastHeard # 0 /\ now - reg[i].LastHeard > staleNodeWindow)}
        |-> reg[id]]

\* cleanStaleNodes: the registry its loop leaves, with the `now` it read.
EvictStale(reg, self, now) ==
    [id \in {i \in DOMAIN reg :
                i = self
                \/ ~(reg[i].LastHeard # 0 /\ now - reg[i].LastHeard > staleNodeWindow)}
        |-> reg[id]]

\* Everything the registry code leaves alone.
baseVars == <<consVars, decideVars, applyVars, Local, nodeRole, matrixVars,
              eventVars, fleetVars>>
otherVars == <<baseVars, lateVars>>

\* What the steps of broadcastClusterJoin leave alone, the node aside.
debounceRest == <<baseVars, sliceVars, overrideVars, scanVars, alertVars, collectVars, statsVars>>
nonClusterVars == <<otherVars, boot>>

\* The wall clock advances.
TickWall ==
    /\ wall + TickMillis <= MaxWall
    /\ wall' = wall + TickMillis
    /\ UNCHANGED <<registry, cluster, gc, nonClusterVars>>

\* handleAllMessages: a message on the cluster subject starts a goroutine
\* that runs handleClusterMessage.
handleAllMessages(msg) ==
    /\ Cardinality(cluster) < MaxCluster
    /\ \A h \in cluster : h.msg # msg
    /\ cluster' = cluster \cup {[msg |-> msg, pc |-> "mark"]}
    /\ UNCHANGED <<registry, wall, gc, nonClusterVars>>

\* handleClusterMessage up to and including markNodeHeard.
markNodeHeardStep(h) ==
    /\ h.pc = "mark"
    /\ IF h.msg.Sender.NodeID = ""
       THEN /\ cluster' = (cluster \ {h}) \cup {[h EXCEPT !.pc = "done"]}
            /\ UNCHANGED registry
       ELSE /\ registry' = MarkHeard(registry, h.msg.Sender.NodeID, wall)
            /\ cluster' = (cluster \ {h}) \cup
                             {[h EXCEPT !.pc = IF h.msg.Type = "join" THEN "add"
                                               ELSE "done"]}
    /\ UNCHANGED <<wall, gc, nonClusterVars>>

\* The addNode call that ends handleClusterMessage for a JOIN.
addNodeStep(h) ==
    /\ h.pc = "add"
    /\ registry' = AddOrMerge(registry, h.msg.Sender)
    /\ cluster' = (cluster \ {h}) \cup {[h EXCEPT !.pc = "done"]}
    /\ UNCHANGED <<wall, gc, nonClusterVars>>

\* One tick of the heartbeat: the node's own LastHeard, then
\* broadcastClusterJoin, whose JOIN the node's own wildcard subscription
\* receives as well (the handler of the previous tick's JOIN has ended).
heartbeatTick ==
    /\ Cardinality({h \in cluster : h.msg.Sender # ThisNode}) < MaxCluster
    /\ \A h \in cluster : h.msg.Sender = ThisNode => h.pc = "done"
    /\ registry' = IF SelfID \in DOMAIN registry
                   THEN [registry EXCEPT ![SelfID].LastHeard = wall]
                   ELSE registry
    /\ cluster' = {h \in cluster : h.msg.Sender # ThisNode}
                    \cup {[msg |-> [Type |-> "join", Sender |-> ThisNode],
                            pc |-> "mark"]}
    /\ UNCHANGED <<wall, gc, nonClusterVars>>

\* cleanStaleNodes reads the time before it takes State.Mu.
cleanStaleNodesNow ==
    /\ gc.pc = "idle"
    /\ gc' = [pc |-> "sweep", now |-> wall]
    /\ UNCHANGED <<registry, wall, cluster, nonClusterVars>>

\* cleanStaleNodes under State.Mu.
cleanStaleNodes ==
    /\ gc.pc = "sweep"
    /\ registry' = EvictStale(registry, SelfID, gc.now)
    /\ gc' = [pc |-> "idle", now |-> 0]
    /\ UNCHANGED <<wall, cluster, nonClusterVars>>

InitRegistry == InitUsage

NextRegistry ==
    \/ TickWall
    \/ \E msg \in ClusterMessages : handleAllMessages(msg)
    \/ \E h \in cluster : markNodeHeardStep(h)
    \/ \E h \in cluster : addNodeStep(h)
    \/ heartbeatTick
    \/ cleanStaleNodesNow
    \/ cleanStaleNodes

SpecRegistry == InitRegistry /\ [][NextRegistry]_vars



\* ------------------------------------------------------------ role startup
\* broadcastClusterJoin called at time now by the goroutine `by`: what it
\* leaves in lastJoin and on the cluster subject.
broadcastClusterJoin(b, now, by) ==
    IF b.lastJoin # 0 /\ now - b.lastJoin < joinDebounce
    THEN b
    ELSE LET stored == [b EXCEPT !.lastJoin = now]
         IN IF b.NodeID = "" \/ ~b.connected
            THEN stored
            ELSE [stored EXCEPT !.joins =
                     Append(@, [at |-> now, by |-> by,
                                Sender |-> NodeEntry(b.NodeID, b.role, b.enabledAt)])]

\* enableRoleInternal up to its first Subscribe.
enableRoleInternal(role) ==
    /\ boot.pc = "start"
    /\ boot' = [boot EXCEPT !.pc = "subscribe", !.role = role, !.enabledAt = wall]
    /\ registry' = Put(registry, SelfID, NodeEntry(boot.NodeID, role, wall))
    /\ UNCHANGED <<wall, cluster, gc, otherVars>>

\* One Subscribe of enableRoleInternal.  When it succeeds the function goes
\* on to its end: garbage collection, heartbeat and the JOIN goroutine start.
subscribeAttempt ==
    /\ boot.pc = "subscribe"
    /\ boot' = IF boot.connected
               THEN [boot EXCEPT !.pc = "enabled",
                                 !.gcOn = boot.role \in {RoleMonitor, RoleCollator},
                                 !.hbPc = "sleep", !.hbWake = wall + heartbeatDelay,
                                 !.joinPc = "call", !.joinI = 0]
               ELSE [boot EXCEPT !.pc = "retry", !.attempt = @ + 1,
                                 !.wake = wall + subscribeDelay]
    /\ UNCHANGED <<registry, wall, cluster, gc, otherVars>>

\* The sleep after a failed Subscribe ends: the next attempt, or the error
\* return after the last one.
subscribeRetry ==
    /\ boot.pc = "retry"
    /\ wall >= boot.wake
    /\ boot' = [boot EXCEPT !.pc = IF boot.attempt >= subscribeAttempts
                                   THEN "failed" ELSE "subscribe"]
    /\ UNCHANGED <<registry, wall, cluster, gc, otherVars>>

\* One turn of the JOIN goroutine: broadcastClusterJoin, then the sleep starts.
joinCall ==
    /\ boot.joinPc = "call"
    /\ boot' = [broadcastClusterJoin(boot, wall, "startup") EXCEPT
                   !.joinPc = "sleep", !.joinWake = wall + broadcastJoinDelay]
    /\ UNCHANGED <<registry, wall, cluster, gc, otherVars>>

\* The sleep of the JOIN goroutine ends.
joinSleepEnds ==
    /\ boot.joinPc = "sleep"
    /\ wall >= boot.joinWake
    /\ boot' = [boot EXCEPT !.joinI = @ + 1,
                            !.joinPc = IF boot.joinI + 1 >= broadcastJoinRetryCount
                                       THEN "done" ELSE "call"]
    /\ UNCHANGED <<registry, wall, cluster, gc, otherVars>>

\* startHeartbeat: the first sleep ends and the ticker is made.
heartbeatStarts ==
    /\ boot.hbPc = "sleep"
    /\ wall >= boot.hbWake
    /\ boot' = [boot EXCEPT !.hbPc = "ticker", !.hbWake = wall + heartbeatInterval]
    /\ UNCHANGED <<registry, wall, cluster, gc, otherVars>>

\* startHeartbeat: one tick.
heartbeatFires ==
    /\ boot.pc = "enabled"
    /\ boot.hbPc = "ticker"
    /\ boot.hbN < MaxHeartbeats
    /\ wall >= boot.hbWake
    /\ registry' = IF SelfID \in DOMAIN registry
                   THEN [registry EXCEPT ![SelfID].LastHeard = wall]
                   ELSE registry
    /\ boot' = [broadcastClusterJoin(boot, wall, "heartbeat") EXCEPT
                   !.hbN = @ + 1, !.hbWake = @ + heartbeatInterval]
    /\ UNCHANGED <<wall, cluster, gc, otherVars>>

\* The connection to the broker is lost, or comes back.
connectionChanges ==
    /\ boot.flips < MaxFlips
    /\ boot' = [boot EXCEPT !.connected = ~@, !.flips = @ + 1, !.wasDown = TRUE]
    /\ UNCHANGED <<registry, wall, cluster, gc, otherVars>>

\* The times at which a sleeping goroutine wakes.
Deadlines ==
    (IF boot.pc = "retry" THEN {boot.wake} ELSE {})
    \cup (IF boot.joinPc = "sleep" THEN {boot.joinWake} ELSE {})
    \cup (IF boot.hbPc = "sleep" \/ (boot.hbPc = "ticker" /\ boot.hbN < MaxHeartbeats)
          THEN {boot.hbWake} ELSE {})

\* Every goroutine sleeps: the clock advances to the next wake time.
sleepEnds ==
    /\ boot.pc \in {"retry", "failed", "enabled"}
    /\ boot.joinPc # "call"
    /\ Deadlines # {}
    /\ \A d \in Deadlines : d > wall
    /\ wall' = CHOOSE d \in Deadlines : \A e \in Deadlines : d <= e
    /\ UNCHANGED <<registry, cluster, gc, boot, otherVars>>

InitJoin ==
    /\ InitConsensus
    /\ InitLocalIdle
    /\ InitAllMonitors
    /\ InitDecideIdle
    /\ InitApplyIdle
    /\ published = {}
    /\ clusterNodes = OwnRegistry
    /\ unused = {}
    /\ quota = 0
    /\ depsLocking = FALSE
    /\ allAgree = FALSE
    /\ registry = EmptyMap
    /\ wall = StartTime
    /\ cluster = {}
    /\ gc = [pc |-> "idle", now |-> 0]
    /\ InitLateIdle
    /\ \E id \in {"", SelfID}, up \in BOOLEAN :
          boot = [pc |-> "start", NodeID |-> id, role |-> "", enabledAt |-> 0,
                  attempt |-> 0, wake |-> 0,
                  connected |-> up, flips |-> 0, wasDown |-> ~up, gcOn |-> FALSE,
                  joinPc |-> "off", joinI |-> 0, joinWake |-> 0,
                  hbPc |-> "off", hbWake |-> 0, hbN |-> 0,
                  lastJoin |-> 0, joins |-> <<>>]

NextJoin ==
    \/ \E role \in {RoleMonitor, RoleDns, RoleCollator} : enableRoleInternal(role)
    \/ subscribeAttempt
    \/ subscribeRetry
    \/ joinCall
    \/ joinSleepEnds
    \/ heartbeatStarts
    \/ heartbeatFires
    \/ connectionChanges
    \/ sleepEnds

SpecJoin == InitJoin /\ [][NextJoin]_vars



\* ------------------------------------------- broadcastClusterJoin by steps
\* The call of goroutine g returns.  The startup goroutine goes to sleep.
ReturnFrom(b, g, now) ==
    IF g = "startup"
    THEN [b EXCEPT !.joinPc = "sleep", !.joinWake = now + broadcastJoinDelay]
    ELSE b

\* The startup goroutine calls broadcastClusterJoin, which reads the time.
startupCalls ==
    /\ boot.joinPc = "call"
    /\ joinCalls["startup"].pc = "wait"
    /\ joinCalls' = [joinCalls EXCEPT !["startup"] = [pc |-> "load", now |-> wall]]
    /\ boot' = [boot EXCEPT !.joinPc = "calling"]
    /\ UNCHANGED <<registry, wall, cluster, gc, debounceRest>>

\* A tick of the heartbeat: the node's own LastHeard under State.Mu, then
\* the call of broadcastClusterJoin, which reads the time.
heartbeatCalls ==
    /\ boot.hbPc = "ticker"
    /\ boot.hbN < MaxHeartbeats
    /\ wall >= boot.hbWake
    /\ joinCalls["heartbeat"].pc = "wait"
    /\ registry' = IF SelfID \in DOMAIN registry
                   THEN [registry EXCEPT ![SelfID].LastHeard = wall]
                   ELSE registry
    /\ boot' = [boot EXCEPT !.hbN = @ + 1, !.hbWake = @ + heartbeatInterval]
    /\ joinCalls' = [joinCalls EXCEPT !["heartbeat"] = [pc |-> "load", now |-> wall]]
    /\ UNCHANGED <<wall, cluster, gc, debounceRest>>

\* atomic.LoadInt64(&lastJoin) and the test on it.
loadLastJoin(g) ==
    /\ joinCalls[g].pc = "load"
    /\ IF boot.lastJoin # 0 /\ joinCalls[g].now - boot.lastJoin < joinDebounce
       THEN /\ joinCalls' = [joinCalls EXCEPT ![g].pc = "wait"]
            /\ boot' = ReturnFrom(boot, g, wall)
       ELSE /\ joinCalls' = [joinCalls EXCEPT ![g].pc = "store"]
            /\ UNCHANGED boot
    /\ UNCHANGED <<registry, wall, cluster, gc, debounceRest>>

\* atomic.StoreInt64(&lastJoin, now).
storeLastJoin(g) ==
    /\ joinCalls[g].pc = "store"
    /\ boot' = [boot EXCEPT !.lastJoin = joinCalls[g].now]
    /\ joinCalls' = [joinCalls EXCEPT ![g].pc = "publish"]
    /\ UNCHANGED <<registry, wall, cluster, gc, debounceRest>>

\* The rest of broadcastClusterJoin: the NodeID test and Publish.  A JOIN is
\* recorded with the time its call read.
publishJoin(g) ==
    /\ joinCalls[g].pc = "publish"
    /\ LET sent == IF boot.NodeID = "" \/ ~boot.connected
                   THEN boot
                   ELSE [boot EXCEPT !.joins =
                            Append(@, [at |-> joinCalls[g].now, by |-> g,
                                       Sender |-> NodeEntry(boot.NodeID, boot.role,
                                                            boot.enabledAt)])]
       IN boot' = ReturnFrom(sent, g, wall)
    /\ joinCalls' = [joinCalls EXCEPT ![g].pc = "wait"]
    /\ UNCHANGED <<registry, wall, cluster, gc, debounceRest>>

\* Time passes while goroutines that could run have not run yet: time.Sleep
\* and the ticker wake a goroutine no earlier than asked, with no bound on
\* how much later.
clockAdvances ==
    /\ \E d \in Deadlines : d > wall
    /\ wall' = CHOOSE d \in Deadlines : d > wall /\ \A e \in Deadlines : e > wall => d <= e
    /\ UNCHANGED <<registry, cluster, gc, boot, otherVars>>

\* enableRoleInternal has just returned without error.
InitDebounce ==
    /\ InitConsensus
    /\ InitLocalIdle
    /\ InitAllMonitors
    /\ InitDecideIdle
    /\ InitApplyIdle
    /\ published = {}
    /\ clusterNodes = OwnRegistry
    /\ unused = {}
    /\ quota = 0
    /\ depsLocking = FALSE
    /\ allAgree = FALSE
    /\ wall = StartTime
    /\ cluster = {}
    /\ gc = [pc |-> "idle", now |-> 0]
    /\ InitLateIdle
    /\ \E id \in {"", SelfID}, role \in {RoleMonitor, RoleDns, RoleCollator} :
          /\ registry = Put(EmptyMap, SelfID, NodeEntry(id, role, StartTime))
          /\ boot = [Enabled EXCEPT !.NodeID = id, !.role = role,
                                    !.gcOn = role \in {RoleMonitor, RoleCollator},
                                    !.joinPc = "call", !.joinI = 0,
                                    !.hbPc = "sleep",
                                    !.hbWake = StartTime + heartbeatDelay]

NextDebounce ==
    \/ startupCalls
    \/ heartbeatCalls
    \/ \E g \in Callers : loadLastJoin(g)
    \/ \E g \in Callers : storeLastJoin(g)
    \/ \E g \in Callers : publishJoin(g)
    \/ joinSleepEnds
    \/ heartbeatStarts
    \/ connectionChanges
    \/ clockAdvances

SpecDebounce == InitDebounce /\ [][NextDebounce]_vars



\* ------------------------------------------- result lists as Go slices
\* A slice header: the backing array and the length.  Array 0 is the array
\* of every empty slice; the capacity of a slice is the length of its array.
Slice(arr, len) == [arr |-> arr, len |-> len]
NilSlot == [nil |-> TRUE]

Members == {"m1", "m2"}

\* Result{Member, Status, Checktime, ...}.
NewResult(member, status, at) == [Member |-> member, Status |-> status, Checktime |-> at]

\* The capacity append gives a full slice.
NewCap(cap) == IF cap = 0 THEN 1 ELSE 2 * cap

\* append(s, x) on heap h whose next free array id is next.
GoAppend(h, next, s, x) ==
    IF s.len < Len(h[s.arr])
    THEN [heap |-> [h EXCEPT ![s.arr][s.len + 1] = x],
          slice |-> Slice(s.arr, s.len + 1), next |-> next]
    ELSE LET fresh == [k \in 1..NewCap(Len(h[s.arr])) |->
                          IF k <= s.len THEN h[s.arr][k]
                          ELSE IF k = s.len + 1 THEN x ELSE NilSlot]
         IN [heap |-> [a \in (DOMAIN h) \cup {next} |-> IF a = next THEN fresh ELSE h[a]],
             slice |-> Slice(next, s.len + 1), next |-> next + 1]

\* What a holder of slice s of SiteResult reads through it.
View(h, s) ==
    [i \in 1..s.len |->
        LET sr == h[s.arr][i]
        IN [IsIPv6 |-> sr.IsIPv6,
            Results |-> [j \in 1..sr.Results.len |-> h[sr.Results.arr][j]]]]

\* The first index of a slice whose element satisfies Test, or 0.
IndexOf(h, s, Test(_)) ==
    IF \E i \in 1..s.len : Test(h[s.arr][i])
    THEN CHOOSE i \in 1..s.len :
            Test(h[s.arr][i]) /\ \A k \in 1..(i - 1) : ~Test(h[s.arr][k])
    ELSE 0

\* UpdateOfficialSiteResult on the slices of data.Official, for the one site
\* check, with publishSnapshotLocked at its end.
UpdateSiteSlices(m, member, status, isIPv6) ==
    LET h == m.heap
        SameSite(sr) == sr.IsIPv6 = isIPv6
        sIndex == IndexOf(h, m.Official, SameSite)
        newResult == NewResult(member, status, m.calls + 1)
        went == [status |-> status, at |-> m.calls + 1]
    IN IF sIndex = 0
       THEN LET one == GoAppend(h, m.next, Slice(0, 0), newResult)
                all == GoAppend(one.heap, one.next, m.Official,
                                [IsIPv6 |-> isIPv6, Results |-> one.slice])
            IN [m EXCEPT !.heap = all.heap, !.next = all.next,
                         !.Official = all.slice, !.official = all.slice,
                         !.calls = @ + 1,
                         !.started = IF ~status THEN Append(@, went) ELSE @]
       ELSE LET sr == h[m.Official.arr][sIndex]
                SameMember(res) == res.Member = member
                rIndex == IndexOf(h, sr.Results, SameMember)
            IN IF rIndex = 0
               THEN LET more == GoAppend(h, m.next, sr.Results, newResult)
                    IN [m EXCEPT !.heap = [more.heap EXCEPT
                                              ![m.Official.arr][sIndex].Results = more.slice],
                                 !.next = more.next,
                                 !.official = m.Official,
                                 !.calls = @ + 1,
                                 !.started = IF ~status THEN Append(@, went) ELSE @]
               ELSE [m EXCEPT !.heap = [h EXCEPT ![sr.Results.arr][rIndex] = newResult],
                              !.official = m.Official,
                              !.calls = @ + 1,
                              !.started = IF h[sr.Results.arr][rIndex].Status # status
                                          THEN Append(@, went) ELSE @]

\* What the result store leaves alone.
snapshotRest == <<baseVars, nodeVars, callVars, overrideVars, scanVars, alertVars, collectVars, statsVars>>

\* A monitor or the finalize hook stores an official result.
updateOfficial(member, status, isIPv6) ==
    /\ mem.calls < MaxUpdates
    /\ mem' = UpdateSiteSlices(mem, member, status, isIPv6)
    /\ UNCHANGED <<readers, snapshotRest>>

\* GetOfficialResults: the caller keeps the slice of the snapshot; `seen` is
\* what the list held when it was returned.
GetOfficialResults ==
    /\ Len(readers) < MaxReads
    /\ readers' = Append(readers, [list |-> mem.official,
                                   seen |-> View(mem.heap, mem.official)])
    /\ UNCHANGED <<mem, snapshotRest>>

NextSnapshot ==
    \/ \E member \in Members, status \in BOOLEAN, isIPv6 \in BOOLEAN :
          updateOfficial(member, status, isIPv6)
    \/ GetOfficialResults

SpecSnapshot == InitUsage /\ [][NextSnapshot]_vars



\* ----------------------------------------------------- member overrides
MemberNames == {"m1", "m2"}

\* A config.Member: `data` stands for everything the members file says about
\* it, as the number of the load that brought it.
MemberRec(data, override, overrideTime) ==
    [data |-> data, Override |-> override, OverrideTime |-> overrideTime]

\* A members file as downloaded by load number n.
Downloaded(present, n) == [name \in present |-> MemberRec(n, FALSE, 0)]

\* loadMembersConfig: the new map, with the overrides of the old one.
loadMembersConfig(members, newMembers) ==
    [name \in DOMAIN newMembers |->
        IF name \in DOMAIN members /\ members[name].Override
        THEN [newMembers[name] EXCEPT !.Override = TRUE,
                                      !.OverrideTime = members[name].OverrideTime]
        ELSE newMembers[name]]

\* What the override code leaves alone.
overrideRest == <<baseVars, nodeVars, callVars, sliceVars, scanVars, alertVars, collectVars, statsVars>>

\* loadConfig under cfg.mu: a reload by configUpdater.  A download or parse
\* that fails leaves the members as they are.
loadConfig(present, ok) ==
    /\ config.loads < MaxLoads
    /\ config' = IF ok
                 THEN [Members |-> loadMembersConfig(config.Members,
                                                     Downloaded(present, config.loads + 1)),
                       newest |-> Downloaded(present, config.loads + 1),
                       loads |-> config.loads + 1]
                 ELSE [config EXCEPT !.loads = @ + 1]
    /\ UNCHANGED <<overrides, overrideRest>>

\* MemberDisable (value TRUE) or MemberEnable (value FALSE) up to and
\* including cfg.GetMember.
memberGet(name, value) ==
    /\ Len(overrides) < MaxOverrides
    /\ overrides' = Append(overrides,
                       IF name \in DOMAIN config.Members
                       THEN [name |-> name, value |-> value, pc |-> "set",
                             member |-> config.Members[name], events |-> 0]
                       ELSE [name |-> name, value |-> value, pc |-> "done",
                             member |-> MemberRec(0, FALSE, 0), events |-> 0])
    /\ UNCHANGED <<config, overrideRest>>

\* The rest of MemberDisable / MemberEnable: cfg.SetMember with the copy, and
\* the two RecordEvent calls.
memberSet(i) ==
    /\ overrides[i].pc = "set"
    /\ config' = [config EXCEPT !.Members =
                     Put(@, overrides[i].name,
                         [overrides[i].member EXCEPT !.Override = overrides[i].value])]
    /\ overrides' = [overrides EXCEPT ![i].pc = "done", ![i].events = 2]
    /\ UNCHANGED overrideRest

NextOverride ==
    \/ \E present \in SUBSET MemberNames, ok \in BOOLEAN : loadConfig(present, ok)
    \/ \E name \in MemberNames, value \in BOOLEAN : memberGet(name, value)
    \/ \E i \in DOMAIN overrides : memberSet(i)

SpecOverride == InitUsage /\ [][NextOverride]_vars



\* ------------------------------------------- concurrent ProposeCheckStatus
\* ProposeCheckStatus at the granularity of its two critical sections: the
\* scan under State.Mu.RLock, and propose, which inserts under State.Mu.Lock.
\* before: the ids uuid.New had returned when the call began; made: the id
\* this call stored ("" when it stored none).
ScanCall(n, key, status, pc, before, made) ==
    [node |-> n, key |-> key, status |-> status, pc |-> pc,
     before |-> before, made |-> made]

scanRest == <<decideVars, applyVars, Local, nodeRole, matrixVars, eventVars,
              fleetVars, nodeVars, callVars, sliceVars, overrideVars, alertVars, collectVars, statsVars>>

\* A check goroutine enters ProposeCheckStatus.
proposeCalled(c, n, key, status) ==
    /\ scans[c].pc \in {"idle", "done"}
    /\ nodeRole[n] = RoleMonitor
    /\ scans' = [scans EXCEPT ![c] = ScanCall(n, key, status, "scan",
                                              ProposalIDs \ unused, "")]
    /\ UNCHANGED <<consVars, scanRest>>

\* The loop over state.Proposals under RLock: return on a match.
scanProposals(c) ==
    /\ scans[c].pc = "scan"
    /\ mu[scans[c].node] = "free"
    /\ scans' = [scans EXCEPT ![c].pc =
                    IF HasOpenProposal(proposals[scans[c].node], scans[c].key,
                                       scans[c].status)
                    THEN "done" ELSE "propose"]
    /\ UNCHANGED <<consVars, scanRest>>

\* propose: new id, insert under Lock, publish, start voteOnProposal.
propose(c) ==
    /\ scans[c].pc = "propose"
    /\ mu[scans[c].node] = "free"
    /\ unused # {}
    /\ quota > 0
    /\ LET n == scans[c].node
           pid == CHOOSE p \in unused : TRUE
           prop == Proposal(pid, n, scans[c].key, scans[c].status)
       IN /\ unused' = unused \ {pid}
          /\ proposals' = [proposals EXCEPT ![n] = Put(@, pid, NewTracking(prop))]
          /\ net' = net \cup Publish([subject |-> "propose", Proposal |-> prop])
          /\ voters' = voters \cup {[node |-> n, Proposal |-> prop]}
          /\ scans' = [scans EXCEPT ![c].pc = "done", ![c].made = pid]
    /\ quota' = quota - 1
    /\ UNCHANGED <<clusterNodes, mu, finalizers, expired, depsLocking, allAgree,
                   published, lastCall, timerVars>>
    /\ UNCHANGED scanRest

NextRace ==
    \/ \E c \in CheckLoops, n \in NodeIDs, key \in CheckKeys, status \in BOOLEAN :
           proposeCalled(c, n, key, status)
    \/ \E c \in CheckLoops : scanProposals(c)
    \/ \E c \in CheckLoops : propose(c)
    \/ \E n \in NodeIDs : HandleProposal(n)

SpecRace == InitPropose /\ [][NextRace]_vars

\* ------------------------------------------- finalize hook, failing database
\* InsertNetStatus that alerts whether or not DB.Exec returned an error.
InsertThenAlertAlways(rws, omap, key, start, ready, sendOk, dbOk) ==
    [rows |-> IF dbOk THEN InsertNetStatus(rws, key, start) ELSE rws,
     offlineMap |-> NotifyMemberOffline(omap, key, ready, sendOk)]

\* InsertNetStatus with its DB.Exec result: the row is written and
\* NotifyMemberOffline called only when err == nil (dbOk).
InsertThenAlert(rws, omap, key, start, ready, sendOk, dbOk) ==
    IF dbOk
    THEN [rows |-> InsertNetStatus(rws, key, start),
          offlineMap |-> NotifyMemberOffline(omap, key, ready, sendOk)]
    ELSE [rows |-> rws, offlineMap |-> omap]

\* The messages NotifyMemberOnline gets into the room: the edit of the
\* announced OFFLINE message when it succeeds (sendOk), else a fresh message
\* when that send succeeds (freshOk).  open and alert: whether an open row and
\* an announced OFFLINE message existed when CloseOpenEvent was called.
OnlineSent(rws, omap, key, ready, sendOk, freshOk) ==
    LET note(how) == [key |-> key, how |-> how,
                      open |-> (OpenRows(rws, key) # {}),
                      alert |-> (key \in omap)]
    IN IF ~ready THEN <<>>
       ELSE IF key \in omap /\ sendOk THEN <<note("edit")>>
       ELSE IF freshOk THEN <<note("fresh")>>
       ELSE <<>>

\* CloseOpenEvent with its DB.Exec result: NotifyMemberOnline only when the
\* UPDATE returned no error.  An UPDATE that matches no row returns none.
CloseThenAlert(rws, omap, key, ready, sendOk, freshOk, dbOk) ==
    IF dbOk /\ ~CloseFails(rws, key)
    THEN [rows |-> CloseOpenEvent(rws, key),
          offlineMap |-> NotifyMemberOnline(omap, key, ready),
          sent |-> OnlineSent(rws, omap, key, ready, sendOk, freshOk)]
    ELSE [rows |-> rws, offlineMap |-> omap, sent |-> <<>>]

hookRest == <<Local, nodeRole, matrixVars, eventVars, fleetVars, nodeVars,
              callVars, sliceVars, overrideVars, scanVars, collectVars, statsVars>>

\* The roles a recipient of FinalizeMessages can have.
HookRoles == {RoleMonitor, RoleCollator, RoleDns}

\* The FinalizeMessages the recipient is given: P0 did not pass, P1 (offline)
\* passed, P2 (online) passed and was decided by both monitors.
HookFinals ==
    {FinalizeMessage(P0, FALSE, "probe2", 0), FinalizeMessage(P1, TRUE, "monitor1", 0)}
        \cup {FinalizeMessage(P2, TRUE, d, 0) : d \in NodeIDs}

InitHook ==
    /\ InitConsensus
    /\ InitClusterIdle
    /\ InitLocalIdle
    /\ InitAllMonitors
    /\ InitDecideIdle
    /\ clusterNodes = FullRegistry
    /\ unused = {}
    /\ quota = 0
    /\ depsLocking = FALSE
    /\ allAgree = FALSE
    /\ published = HookFinals
    /\ recipientRole \in HookRoles
    /\ official = EmptyMap
    /\ recorded = <<>>
    /\ rows = {}
    /\ offlineMap = {}
    /\ handled = [fm \in HookFinals |-> 0]
    /\ lastHandled = NoHandled

\* OnFinalize of the dependencies: onConsensusFinalize, as finalize and
\* HandleFinalize call it, the database answering dbOk.  The subscription
\* delivers each FinalizeMessage once.
OnFinalize(fm, ready, sendOk, freshOk, dbOk) ==
    /\ handled[fm] = 0
    /\ handled' = [handled EXCEPT ![fm] = @ + 1]
    /\ lastHandled' = [fm |-> fm, notified |-> Notified(fm, ready, sendOk),
                       again |-> (lastHandled.fm = fm)]
    /\ IF ~fm.Passed
       THEN UNCHANGED <<official, recorded, rows, offlineMap, onlineNotes>>
       ELSE IF recipientRole = RoleMonitor
            THEN applyOfficialChanges(fm.Proposal) /\ UNCHANGED onlineNotes
       ELSE IF recipientRole = RoleCollator
            THEN LET key == KeyOf(fm.Proposal)
                 IN IF ~fm.Proposal.ProposedStatus
                    THEN LET res == InsertThenAlert(rows, offlineMap, key,
                                        DecidedAt(fm), ready, sendOk, dbOk)
                         IN /\ rows' = res.rows
                            /\ offlineMap' = res.offlineMap
                            /\ UNCHANGED <<official, recorded, onlineNotes>>
                    ELSE LET res == CloseThenAlert(rows, offlineMap, key, ready,
                                        sendOk, freshOk, dbOk)
                         IN /\ rows' = res.rows
                            /\ offlineMap' = res.offlineMap
                            /\ onlineNotes' = onlineNotes \o res.sent
                            /\ UNCHANGED <<official, recorded>>
       ELSE UNCHANGED <<official, recorded, rows, offlineMap, onlineNotes>>
    /\ UNCHANGED <<recipientRole, consVars, decideVars, hookRest>>

NextHook ==
    \E fm \in published, ready \in BOOLEAN, sendOk \in BOOLEAN,
       freshOk \in BOOLEAN, dbOk \in BOOLEAN :
        OnFinalize(fm, ready, sendOk, freshOk, dbOk)

SpecHook == InitHook /\ [][NextHook]_vars



\* ------------------------------------------------- hourly collections
\* What a DNS node answers a usage request of the day with: its total for the
\* key, which only grows during the day.
UsageAnswer(n) == <<UsageRec(n, "rpc.example", "m1", dnsHits[n])>>

collectRest == <<baseVars, nodeVars, callVars, sliceVars, overrideVars, scanVars,
                 alertVars, statsVars>>

hourRest == <<consVars, decideVars, applyVars, Local, nodeRole, matrixVars,
              eventVars, nodeVars, callVars, sliceVars, overrideVars, scanVars,
              alertVars, statsVars>>

\* A DNS node serves a query of the key.
dnsServes(n) ==
    /\ gather.pc \in {"idle", "stored"}
    /\ dnsHits[n] < MaxDnsHits
    /\ dnsHits' = [dnsHits EXCEPT ![n] = @ + 1]
    /\ UNCHANGED <<hour, collectRest>>

\* The response of DNS node n to the request of this collection.
usageResponse(n) ==
    /\ \A i \in DOMAIN inbox : inbox[i].NodeID # n
    /\ receiveResponse(n, UsageAnswer(n))

\* <-ticker.C in the collector loop: the next hour, the same UTC day.
nextHour ==
    /\ gather.pc = "stored"
    /\ hour < MaxCollections
    /\ hour' = hour + 1
    /\ gather' = [gather EXCEPT !.pc = "idle"]
    /\ UNCHANGED <<peers, responseMap, inbox, handlers, usageVars, respondVars,
                   dnsHits, hourRest>>

NextCollect ==
    \/ RequestAll("usage")
    \/ \E n \in Origins : registryChanges(n)
    \/ \E n \in Origins : dnsServes(n)
    \/ \E n \in Origins : usageResponse(n)
    \/ \E i \in handlers : responseHandler(i)
    \/ caseTicker
    \/ caseTimer
    \/ collectOnce
    \/ nextHour

SpecCollect == InitUsage /\ [][NextCollect]_vars

\* ------------------------------------------------- recording DNS hits
\* A flush that empties the map whatever the upserts returned.
FlushedMemAll(memory, failed) == EmptyMap

\* The map after the loop of FlushUsageToDatabase: a key is deleted after its
\* upsert succeeded, a key whose upsert failed stays.
FlushedMem(memory, failed) ==
    [k \in DOMAIN memory \cap failed |-> memory[k]]

\* UpsertUsageRecord of every key of the map: hits = hits + VALUES(hits) for
\* the keys whose statement succeeds, nothing for the others.
FlushedDb(db, memory, failed) ==
    [k \in DOMAIN db |->
        IF k \in DOMAIN memory /\ k \notin failed THEN db[k] + memory[k]
        ELSE db[k]]

statsRest == <<baseVars, nodeVars, callVars, sliceVars, overrideVars, scanVars,
               alertVars, collectVars>>

\* RecordDnsHit with statistics enabled, a domain and a client address:
\* usageMem.data[key]++ under usageMem.mu.
RecordDnsHit(k) ==
    /\ SumOver(recordedHits) < MaxHitsRecorded
    /\ usageMem' = Put(usageMem, k, IF k \in DOMAIN usageMem THEN usageMem[k] + 1 ELSE 1)
    /\ recordedHits' = [recordedHits EXCEPT ![k] = @ + 1]
    /\ UNCHANGED <<dbHits, lastFlush, statsRest>>

\* FlushUsageToDatabase, usageMem.mu held from the first line to the return;
\* failed are the keys whose UpsertUsageRecord returns an error.
FlushUsageToDatabase(failed) ==
    /\ DOMAIN usageMem # {}
    /\ failed \subseteq DOMAIN usageMem
    /\ dbHits' = FlushedDb(dbHits, usageMem, failed)
    /\ usageMem' = FlushedMem(usageMem, failed)
    /\ lastFlush' = [tried |-> DOMAIN usageMem, failed |-> failed]
    /\ UNCHANGED <<recordedHits, statsRest>>

NextStats ==
    \/ \E k \in StatKeys : RecordDnsHit(k)
    \/ \E failed \in SUBSET StatKeys : FlushUsageToDatabase(failed)

SpecStats == InitUsage /\ [][NextStats]_vars

C2_MajorityCorrectness ==
    dOut.done =>
        LET reg == dIn.reg
            votes == dIn.pt.Votes
            monitors == {id \in DOMAIN reg :
                            reg[id].NodeRole = "IBPMonitor" /\ reg[id].active}
            total == Cardinality(monitors)
            yes == Cardinality({id \in monitors \cap DOMAIN votes : votes[id]})
            no == Cardinality({id \in monitors \cap DOMAIN votes : ~votes[id]})
        IN /\ (dOut.pt.Finalized /\ dOut.pt.Passed) => yes >= (total \div 2) + 1
           /\ (dOut.pt.Finalized /\ ~dOut.pt.Passed) => no >= (total \div 2) + 1
           /\ total = 0 => ~dOut.pt.Finalized
           /\ dOut.pt.Votes = votes

\* C2's case: an entry passed although it also stores an Agree vote of a node
\* that does not count, in a registry of at least two active monitors.
C2_Witness ==
    /\ dOut.done /\ dOut.pt.Finalized /\ dOut.pt.Passed
    /\ CountActiveMonitors(dIn.reg) >= 2
    /\ \E id \in DOMAIN dIn.pt.Votes :
          /\ dIn.pt.Votes[id]
          /\ \/ id \notin DOMAIN dIn.reg
             \/ dIn.reg[id].NodeRole # RoleMonitor
             \/ ~dIn.reg[id].active

\* C3: when all monitors count each other as active and every local
\* observation equals the proposed status, a proposal a node created is
\* eventually finalized on it: the proposer publishes a FinalizeMessage with
\* Passed = TRUE.
C3_ProposerFinalizes ==
    \A n \in NodeIDs :
        (/\ clusterNodes = FullRegistry
         /\ \E pid \in DOMAIN proposals[n] :
               proposals[n][pid].Proposal.SenderNodeID = n)
            ~> (\E fm \in published :
                   fm.by = n /\ fm.Proposal.SenderNodeID = n /\ fm.Passed)

\* C4: no handler blocks forever on State.Mu: HandleVote and forceFinalize
\* always return from the decision rule and release the lock.
C4_NoHandlerBlocks == \A n \in NodeIDs : mu[n] # "stuck"

\* C5: no entry is finalized, as passed or as failed, unless the winning side
\* has at least 2 counted votes.
C5_MinimumTwoVotes ==
    (dOut.done /\ dOut.pt.Finalized) =>
        CountVotes(dIn.reg, dIn.pt.Votes, dOut.pt.Passed) >= 2

\* C6: a ProposeCheckStatus call made while the node tracks an unfinalized
\* entry with the same seven semantic fields creates no entry, schedules no
\* timer, publishes nothing and casts no vote; any other call creates exactly
\* one new entry under a fresh ProposalID, publishes it and starts one vote.
C6_ProposeIdempotent ==
    [][\A n \in NodeIDs, key \in CheckKeys, status \in BOOLEAN :
          ProposeCheckStatus(n, key, status) =>
              IF \E pid \in DOMAIN proposals[n] :
                    /\ ~proposals[n][pid].Finalized
                    /\ proposals[n][pid].Proposal.CheckType = key.CheckType
                    /\ proposals[n][pid].Proposal.CheckName = key.CheckName
                    /\ proposals[n][pid].Proposal.MemberName = key.MemberName
                    /\ proposals[n][pid].Proposal.DomainName = key.DomainName
                    /\ proposals[n][pid].Proposal.Endpoint = key.Endpoint
                    /\ proposals[n][pid].Proposal.ProposedStatus = status
                    /\ proposals[n][pid].Proposal.IsIPv6 = key.IsIPv6
              THEN UNCHANGED <<clusterNodes, proposals, mu, net, voters,
                               finalizers, unused, quota, published>>
              ELSE \E pid \in unused :
                      /\ \A x \in NodeIDs : pid \notin DOMAIN proposals[x]
                      /\ DOMAIN proposals'[n] = DOMAIN proposals[n] \cup {pid}
                      /\ \A q \in DOMAIN proposals[n] :
                            proposals'[n][q] = proposals[n][q]
                      /\ proposals'[n][pid].Proposal.ID = pid
                      /\ proposals'[n][pid].Proposal.ProposedStatus = status
                      /\ KeyOf(proposals'[n][pid].Proposal) = key
                      /\ ~proposals'[n][pid].Finalized
                      /\ proposals'[n][pid].Timer = "running"
                      /\ Cardinality(voters' \ voters) = 1
                      /\ \A m \in net' \ net : m.msg.subject = "propose"
                                                  /\ m.msg.Proposal.ID = pid
                      /\ net' # net
    ]_vars

\* C6's case: the last call returned early at a node that tracks a matching
\* unfinalized entry another node proposed.
C6_Witness ==
    /\ lastCall.found
    /\ \E pid \in DOMAIN proposals[lastCall.node] :
          /\ ~proposals[lastCall.node][pid].Finalized
          /\ proposals[lastCall.node][pid].Proposal.SenderNodeID # lastCall.node
          /\ KeyOf(proposals[lastCall.node][pid].Proposal) = lastCall.key
          /\ proposals[lastCall.node][pid].Proposal.ProposedStatus = lastCall.status
          /\ Cardinality(DOMAIN proposals[lastCall.node]) = 1

\* C7: once an entry is Finalized, its Finalized and Passed fields and its
\* Votes map never change again; a vote for a ProposalID the node does not
\* track creates no entry; and every finalized entry is eventually deleted.
C7_FinalizedEntryLifecycle ==
    /\ [][\A n \in NodeIDs :
             /\ \A pid \in DOMAIN proposals[n] :
                   (proposals[n][pid].Finalized /\ pid \in DOMAIN proposals'[n])
                       => proposals'[n][pid] = proposals[n][pid]
             /\ \A m \in net \ net' :
                   (/\ m.to = n
                    /\ m.msg.subject = "vote"
                    /\ m.msg.ProposalID \notin DOMAIN proposals[n])
                       => proposals'[n] = proposals[n]
       ]_vars
    /\ \A n \in NodeIDs, pid \in ProposalIDs :
          (pid \in DOMAIN proposals[n] /\ proposals[n][pid].Finalized)
              ~> (pid \notin DOMAIN proposals[n])

\* C7's case: a node holds a Finalized entry and has handled the vote of
\* another node (its copy for the voter itself is still in flight) without
\* storing it.
C7_Witness ==
    \E n \in NodeIDs, m \in net :
        /\ m.msg.subject = "vote"
        /\ m.to # n
        /\ m.msg.NodeID # n
        /\ [m EXCEPT !.to = n] \notin net
        /\ m.msg.ProposalID \in DOMAIN proposals[n]
        /\ proposals[n][m.msg.ProposalID].Finalized
        /\ m.msg.NodeID \notin DOMAIN proposals[n][m.msg.ProposalID].Votes

C9_ReorderingSafe ==
    (\A fm \in published : fm.Passed => handled[fm] >= 1) =>
        /\ recipientRole = RoleMonitor =>
              /\ KeyOf(P2) \in DOMAIN official
              /\ official[KeyOf(P2)] = P2.ProposedStatus
        /\ recipientRole = RoleCollator => OpenRows(rows, KeyOf(P1)) = {}

\* C10: with all monitors counting each other as active and all observations
\* equal to the proposed status, once the proposal and every vote have been
\* delivered and every goroutine has run, every monitor has finalized the
\* proposal as passed, in whatever order the messages arrived.
C10_OutOfOrderVotes ==
    (/\ allAgree
     /\ ~depsLocking
     /\ clusterNodes = FullRegistry
     /\ unused = {}
     /\ net = {}
     /\ voters = {}
     /\ finalizers = {})
        => \A n \in NodeIDs : \E fm \in published : fm.by = n /\ fm.Passed

\* C11: a node starts one vote goroutine for each tracking entry it creates
\* and none otherwise; the goroutine publishes nothing when the node's result
\* store holds no observation for the proposal's check key, and otherwise one
\* Vote whose Agree is (stored status = proposed status); a proposal whose ID
\* is tracked already changes neither the entries nor the vote goroutines.
C11_VotingRule ==
    [][\A n \in NodeIDs :
          /\ \A v \in voters' \ voters :
                v.node = n =>
                    /\ v.Proposal.ID \notin DOMAIN proposals[n]
                    /\ v.Proposal.ID \in DOMAIN proposals'[n]
                    /\ proposals'[n][v.Proposal.ID].Proposal = v.Proposal
                    /\ Cardinality(voters' \ voters) = 1
          /\ \A v \in voters \ voters' :
                v.node = n =>
                    LET key == KeyOf(v.Proposal)
                        store == Local[n].results
                        sent == {m.msg : m \in net' \ net}
                    IN IF key \notin DOMAIN store
                       THEN net' = net
                       ELSE /\ Cardinality(sent) = 1
                            /\ \A msg \in sent :
                                  /\ msg.subject = "vote"
                                  /\ msg.ProposalID = v.Proposal.ID
                                  /\ msg.NodeID = n
                                  /\ msg.Agree =
                                        (store[key] = v.Proposal.ProposedStatus)
          /\ (\E m \in net' \ net : m.msg.subject = "vote" /\ m.msg.NodeID = n)
                => \E v \in voters \ voters' : v.node = n
          /\ \A m \in net \ net' :
                (/\ m.to = n
                 /\ m.msg.subject = "propose"
                 /\ m.msg.Proposal.ID \in DOMAIN proposals[n])
                    => proposals' = proposals /\ voters' = voters
    ]_vars

\* C11's case: a node tracks a proposal, its vote goroutine has run and
\* abstained (its store holds an observation only for the other address
\* family), and the other node has published a disagreeing vote.
C11_Witness ==
    \E n \in NodeIDs, m \in net :
        /\ Local[n].modelled
        /\ m.msg.subject = "vote"
        /\ m.msg.NodeID # n
        /\ ~m.msg.Agree
        /\ m.msg.ProposalID \in DOMAIN proposals[n]
        /\ \A v \in voters : v.node # n
        /\ DOMAIN Local[n].results = {CheckKey(TRUE)}
        /\ KeyOf(proposals[n][m.msg.ProposalID].Proposal) = CheckKey(FALSE)

\* C12: a forceFinalize call on an unfinalized entry either finalizes it or
\* leaves it open with another timeout armed, and returns; a call on a
\* finalized or deleted entry changes nothing and arms nothing; so every
\* unfinalized entry always has a timeout armed or a forceFinalize call
\* under way.
C12_TimeoutRetry ==
    /\ [][\A n \in NodeIDs : \A cb \in callbacks \ callbacks' :
             cb.node = n =>
                 IF /\ cb.pid \in DOMAIN proposals[n]
                    /\ ~proposals[n][cb.pid].Finalized
                 THEN /\ cb.pid \in DOMAIN proposals'[n]
                      /\ mu'[n] = "free"
                      /\ \/ proposals'[n][cb.pid].Finalized
                         \/ proposals'[n][cb.pid].Timer = "running"
                 ELSE /\ proposals' = proposals
                      /\ detached' = detached
                      /\ finalizers' = finalizers
       ]_vars
    /\ [](\A n \in NodeIDs : \A pid \in DOMAIN proposals[n] :
             ~proposals[n][pid].Finalized =>
                 \/ proposals[n][pid].Timer = "running"
                 \/ [node |-> n, pid |-> pid] \in callbacks)

\* C13: a scan of cleanOldProposals leaves no entry whose Timestamp is over
\* ten minutes old, and every tracking entry is eventually removed.
C13_BoundedTrackingLifetime ==
    /\ [][\A n \in NodeIDs :
             cleanOldProposals(n) =>
                 \A pid \in old : pid \notin DOMAIN proposals'[n]
       ]_vars
    /\ \A n \in NodeIDs, pid \in ProposalIDs :
          (pid \in DOMAIN proposals[n]) ~> (pid \notin DOMAIN proposals[n])

C15_OnlyMonitorsTakePart ==
    \A n \in NodeIDs :
        nodeRole[n] \in {RoleCollator, RoleDns} =>
            /\ proposals[n] = EmptyMap
            /\ \A v \in voters : v.node # n
            /\ \A f \in finalizers : f.node # n
            /\ \A m \in net : m.msg.subject = "vote" => m.msg.NodeID # n
            /\ \A fm \in published : fm.by # n

\* C15's case: a collator has handled the proposal and the vote of a monitor
\* (it has heard of the monitor) and the monitor has published the
\* FinalizeMessage.
C15_Witness ==
    \E n \in NodeIDs, fm \in published :
        /\ nodeRole[n] = RoleCollator
        /\ fm.by # n
        /\ fm.by \in DOMAIN clusterNodes[n]
        /\ \A m \in net : m.to # n


\* C16: single announcer.  In the order the room receives them, two OFFLINE
\* messages for one outage key always have an ONLINE notification between
\* them (its message, or the point where the call cleared the key).
C16_SingleAnnouncer ==
    \A i \in DOMAIN room : \A j \in DOMAIN room :
        (i < j /\ room[i] = "OFFLINE" /\ room[j] = "OFFLINE")
            => \E k \in (i + 1)..(j - 1) : room[k] \in {"ONLINE", "cleared"}

\* Calls of NotifyMemberOffline that have not returned.
OfflineInFlight == {i \in DOMAIN calls : calls[i].kind = "offline" /\ calls[i].pc # "done"}

\* A NotifyMemberOnline call returned with the transport ready, and no call
\* has started since.
OnlineCompletedLast ==
    \E i \in DOMAIN calls :
        /\ calls[i].kind = "online"
        /\ calls[i].pc = "done"
        /\ calls[i].ready
        /\ calls[i].seen = Len(calls)

\* C17: re-arming after recovery.  Once NotifyMemberOnline has returned with
\* the transport ready and every NotifyMemberOffline call started before has
\* returned, the key is absent from the map; and a NotifyMemberOffline that
\* finds the key absent becomes the announcer.
C17_RearmAfterRecovery ==
    /\ [](OnlineCompletedLast /\ OfflineInFlight = {} => makeKey \notin DOMAIN alertMap)
    /\ [][\A i \in DOMAIN calls :
            (calls[i].pc = "LoadOrStore" /\ calls'[i].pc # "LoadOrStore"
                /\ makeKey \notin DOMAIN alertMap)
                => calls'[i].pc = "announce"]_vars

\* C18: a failed announcement is retryable.  When the announcer returns
\* after its send failed, the key is absent from the map (neither sentinel
\* nor message id); a NotifyMemberOffline that then runs its LoadOrStore
\* becomes the announcer; and the failing call changes nothing but the map
\* and its own position.
C18_FailedAnnouncementRetryable ==
    [][\A i \in DOMAIN calls :
        /\ (calls[i].pc = "DeleteOnError" /\ calls'[i].pc = "done")
              => /\ makeKey \notin DOMAIN alertMap'
                 /\ room' = room
                 /\ UNCHANGED <<consVars, decideVars, applyVars, Local, nodeRole, eventVars, fleetVars, clusterVars>>
        /\ (calls[i].pc = "LoadOrStore" /\ calls'[i].pc # "LoadOrStore"
                /\ makeKey \notin DOMAIN alertMap)
              => calls'[i].pc = "announce"]_vars

\* A call failed to announce and returned, and a call started later has
\* sent the OFFLINE message again.
C18_Witness ==
    \E i \in DOMAIN calls : \E j \in DOMAIN calls :
        /\ calls[i].failed /\ calls[i].pc = "done"
        /\ calls[i].seen < j
        /\ calls[j].kind = "offline" /\ calls[j].pc = "Store"


\* C19: at most one open outage row per key, in the collator's table after
\* the finalize messages it handled and in a monitor's table after the
\* status changes it recorded.
C19_OneOpenOutageRow ==
    /\ Cardinality(OpenRows(rows, makeKey)) <= 1
    /\ Cardinality(OpenEvents(events, makeKey)) <= 1

\* C20: short-flap suppression.  The official status went offline and then
\* online, and both RecordEvent goroutines have returned: when the two
\* changes were less than 30 s apart no row of that outage is left, otherwise
\* its row is there, closed.
C20_ShortFlapSuppression ==
    \A i \in DOMAIN recorders :
        (/\ i + 1 \in DOMAIN recorders
         /\ ~recorders[i].status /\ recorders[i + 1].status
         /\ recorders[i].pc = "done" /\ recorders[i + 1].pc = "done")
        => IF recorders[i + 1].at - recorders[i].at < ShortFlap
           THEN \A r \in events : r.id # i
           ELSE \E r \in events : r.id = i /\ ~r.open


\* The rows stored for the key tuple of a UsageRecord.
RowsOf(key) ==
    {r \in requests :
        /\ r.key.Date = key.Date /\ r.key.NodeID = key.NodeID
        /\ r.key.IsIPv6 = key.IsIPv6
        /\ \A f \in {"Domain", "MemberName", "Asn", "NetworkName",
                      "CountryCode", "CountryName"} :
              r.key[f] \in {key[f], nullOrEmpty(key[f])}}

\* The last UpsertUsage call for a key tuple.
LastUpsert(key) ==
    upserts[CHOOSE i \in DOMAIN upserts :
                /\ upserts[i].key = key
                /\ \A j \in DOMAIN upserts : upserts[j].key = key => j <= i]

\* C21: after any sequence of UpsertUsage calls every key tuple that was
\* upserted has exactly one stored row, whose hits are the Hits of the most
\* recent call for that key (so the same call twice leaves the row of one
\* call, and hits=7 followed by hits=3 leaves 3).
C21_UpsertReplaces ==
    \A i \in DOMAIN upserts :
        LET key == upserts[i].key
        IN /\ Cardinality(RowsOf(key)) = 1
           /\ \A r \in RowsOf(key) : r.hits = LastUpsert(key).hits


\* RequestAll has returned a result.
Returned == gather.pc \in {"done", "stored"}

\* The first response of origin n on the inbox.
FirstFrom(n) ==
    inbox[CHOOSE i \in DOMAIN inbox :
            /\ inbox[i].NodeID = n
            /\ \A j \in DOMAIN inbox : inbox[j].NodeID = n => i <= j]

\* C22: per-origin deduplication.  The result of RequestAll (usage or
\* downtime) is built from one response per origin NodeID, the first one
\* received on the reply inbox, however the response handlers interleave.
C22_FirstResponsePerOrigin ==
    Returned =>
        \A n \in DOMAIN gather.used :
            /\ \E i \in DOMAIN inbox : inbox[i].NodeID = n
            /\ gather.used[n] = FirstFrom(n).records

\* The accepted records that have the key tuple of rec.
SameTuple(rm, rec) == {sl \in Slots(rm) : KeyTuple(rm[sl[1]][sl[2]]) = KeyTuple(rec)}

\* C23: usage aggregation.  The list the usage RequestAll returns holds
\* exactly one record per distinct key tuple (date, domain, member,
\* countryCode, asn, networkName, countryName) of the accepted responses,
\* with the Hits of all accepted records of that tuple added.
C23_UsageAggregation ==
    (Returned /\ gather.flow = "usage") =>
        /\ \A sl \in Slots(gather.used) :
              LET rec == gather.used[sl[1]][sl[2]]
                  out == {r \in gather.result : KeyTuple(r) = KeyTuple(rec)}
              IN /\ Cardinality(out) = 1
                 /\ \A r \in out : r.Hits = SumHits(gather.used, SameTuple(gather.used, rec))
        /\ \A r \in gather.result : SameTuple(gather.used, r) # {}

\* C24: scatter/gather termination.  A RequestAll that has published its
\* request returns; not later than the timeout (plus one poll), with what
\* responseMap held then; and before the timeout only when the distinct
\* origins in responseMap number at least the expected count.
C24_GatherTerminates ==
    /\ [](Returned =>
            /\ gather.elapsed <= TimeoutPolls + 1
            /\ gather.elapsed < TimeoutPolls =>
                  Cardinality(DOMAIN gather.used) >= gather.expected
            /\ gather.result \in (IF gather.flow = "usage"
                                   THEN Aggregations(gather.used)
                                   ELSE Concatenations(gather.used)))
    /\ ((gather.pc = "wait" /\ gather.published) ~> Returned)

\* RequestAll returned before the timeout with both expected origins.
C24_Witness ==
    /\ Returned
    /\ gather.elapsed < TimeoutPolls
    /\ gather.expected = 2
    /\ Cardinality(DOMAIN gather.used) = 2

\* C25: no-peers fast failure.  A RequestAll that finds zero active nodes of
\* the target role returns its error in the same step: no subscription, no
\* request published, no poll waited for; and the collector leaves the
\* requests table as it was.
C25_NoPeersFastFailure ==
    /\ [][(/\ gather.pc \in {"idle", "failed"}
           /\ gather'.pc \in {"failed", "wait"}
           /\ Cardinality(peers) = 0)
          => /\ gather'.pc = "failed"
             /\ ~gather'.subscribed /\ ~gather'.published
             /\ gather'.elapsed = 0
             /\ inbox' = <<>>
             /\ requests' = requests]_vars
    /\ [](gather.pc = "failed" =>
            /\ requests = gather.before
            /\ ~gather.subscribed /\ ~gather.published /\ inbox = <<>>)

\* After a call that failed for want of peers the collector has called
\* again and published a request.
C25_Witness ==
    /\ gather.failedBefore
    /\ gather.pc = "wait"
    /\ gather.flow = "usage"
    /\ gather.published


\* C26: the responder never drops a reply.  For every request handled it
\* has published exactly one response, on the reply inbox of the request if
\* it has one and else on the data subject; and when the request did not
\* parse, was invalid (start after end) or the local query failed, that
\* response has no records and a non-empty Error.
C26_ResponderNeverDrops ==
    \A i \in DOMAIN served :
        LET req == served[i].req
            out == served[i].out
        IN /\ Len(out) = 1
           /\ \A k \in DOMAIN out :
                /\ out[k].subject = (IF req.reply # "" THEN req.reply
                                     ELSE DataSubject(req.flow))
                /\ (~req.parses \/ req.startAfterEnd \/ ~req.queryOk)
                      => (out[k].resp.records = <<>> /\ out[k].resp.Error # "")


\* The entries a step keeps.
Kept == (DOMAIN registry) \cap (DOMAIN registry')

\* C27: LastHeard of a registry entry never decreases while the entry
\* exists, whatever the interleaving of markNodeHeard, JOIN handling and the
\* heartbeat; and no step taken at one instant turns an active entry inactive.
C27_LastHeardMonotonic ==
    [][\A id \in Kept :
          /\ registry'[id].LastHeard >= registry[id].LastHeard
          /\ (wall' = wall /\ ActiveAt(registry[id], wall))
                => ActiveAt(registry'[id], wall)]_vars

\* The handler h took its step from position pc to the end.
Ended(h, pc) == h.pc = pc /\ h \in cluster /\ [h EXCEPT !.pc = "done"] \in cluster'

\* C28: a registry entry with a role keeps exactly that role through every
\* markNodeHeard and every JOIN for as long as it exists; an entry without a
\* role gets the role inferred from its id or the role of the JOIN payload
\* whose addNode runs first; and a message with an empty sender id changes
\* nothing.
C28_KnownRolesNeverRegress ==
    [][/\ \A id \in Kept :
            LET was == registry[id].NodeRole
                now == registry'[id].NodeRole
            IN /\ was # "" => now = was
               /\ (was = "" /\ now # "") =>
                     \/ now = guessRoleFromID(id)
                     \/ \E h \in cluster :
                           /\ Ended(h, "add")
                           /\ h.msg.Sender.NodeID = id
                           /\ h.msg.Sender.NodeRole = now
       /\ \A h \in cluster :
            LET n == h.msg.Sender
            IN /\ (Ended(h, "add") /\ n.NodeID \in DOMAIN registry
                   /\ registry[n.NodeID].NodeRole = "" /\ n.NodeRole # "")
                     => registry'[n.NodeID].NodeRole = n.NodeRole
               /\ (Ended(h, "mark") /\ n.NodeID = "") => registry' = registry
       /\ MarkHeard(registry, "", wall) = registry]_vars

\* Two JOINs of probe2 with different roles have both been handled at the
\* start time, and the entry has the collator role.
C28_Witness ==
    /\ wall = StartTime
    /\ "probe2" \in DOMAIN registry
    /\ registry["probe2"].NodeRole = RoleCollator
    /\ \A role \in {RoleCollator, RoleMonitor} :
          [msg |-> [Type |-> "join", Sender |-> NodeEntry("probe2", role, StartTime)],
           pc |-> "done"] \in cluster

\* The entries a step removes.
Removed == (DOMAIN registry) \ (DOMAIN registry')

\* C29: only the sweep of cleanStaleNodes removes entries; it never removes
\* the node's own entry; every entry it removes has LastHeard set and more
\* than staleNodeWindow in the past, so none of them is active by
\* IsNodeActive; and the number of active entries of every role is the same
\* before and after the sweep.  (Active is IsNodeActive of the entry as the
\* registry stores it.)
C29_EvictionSafety ==
    [][/\ SelfID \notin Removed
       /\ Removed # {} => (gc.pc = "sweep" /\ gc'.pc = "idle")
       /\ \A id \in Removed :
            /\ registry[id].LastHeard # 0
            /\ wall - registry[id].LastHeard > staleNodeWindow
            /\ ~ActiveAt(registry[id], wall)
       /\ (gc.pc = "sweep" /\ gc'.pc = "idle") =>
            \A role \in {RoleMonitor, RoleDns, RoleCollator, RoleUnknown} :
                CountActive(registry', role, wall) = CountActive(registry, role, wall)]_vars

\* A sweep has removed monitor2, whose message had been handled, while the
\* node's own entry, as old as that one, is still there.
C29_Witness ==
    /\ gc.pc = "idle"
    /\ "monitor2" \notin DOMAIN registry
    /\ \E h \in cluster : h.pc = "done" /\ h.msg.Sender.NodeID = "monitor2"
    /\ SelfID \in DOMAIN registry
    /\ wall - registry[SelfID].LastHeard > staleNodeWindow

\* The JOINs the startup goroutine has published.
StartupJoins ==
    LET ByStartup(j) == j.by = "startup"
    IN SelectSeq(boot.joins, ByStartup)

\* C30: once a role is enabled on a node whose NodeID is not empty and whose
\* connection never dropped, and the startup goroutine has ended, that
\* goroutine has published JOIN three times, each 500 ms after the one before.
C30_StartupJoinGossip ==
    (boot.pc = "enabled" /\ boot.NodeID # "" /\ ~boot.wasDown /\ boot.joinPc = "done")
        => /\ Len(StartupJoins) = broadcastJoinRetryCount
           /\ \A k \in 1..(Len(StartupJoins) - 1) :
                 StartupJoins[k + 1].at - StartupJoins[k].at = broadcastJoinDelay

\* C31: any two JOINs a node has published come from calls of
\* broadcastClusterJoin that read times at least 5 seconds apart, however
\* the calls of the startup goroutine and of the heartbeat interleave.
C31_JoinDebounce ==
    \A i, j \in DOMAIN boot.joins :
        (i # j /\ boot.joins[i].at <= boot.joins[j].at)
            => boot.joins[j].at - boot.joins[i].at >= joinDebounce

\* C32: a result list returned by GetOfficialResults reads the same at every
\* later moment as it did when it was returned: no later update shows
\* through it.
C32_ConsistentSnapshots ==
    \A i \in DOMAIN readers :
        View(mem.heap, readers[i].list) = readers[i].seen

\* C33: a reload keeps Override = true and the OverrideTime of every member
\* that had an override and is in the newly loaded set; and when
\* MemberDisable / MemberEnable stores its member, the member has the
\* override value of that call and the data of the newest load.
C33_OverridePreservation ==
    [][/\ config'.loads # config.loads =>
            \A name \in (DOMAIN config.Members) \cap (DOMAIN config'.Members) :
                config.Members[name].Override =>
                    /\ config'.Members[name].Override
                    /\ config'.Members[name].OverrideTime
                          = config.Members[name].OverrideTime
       /\ \A i \in DOMAIN overrides :
            (overrides[i].pc = "set" /\ overrides'[i].pc = "done") =>
                LET name == overrides[i].name
                IN /\ config'.Members[name].Override = overrides[i].value
                   /\ name \in DOMAIN config.newest
                   /\ config'.Members[name].data = config.newest[name].data]_vars

C35_ConcurrentProposeOnce ==
    \A c1 \in CheckLoops, c2 \in CheckLoops :
        (/\ c1 # c2
         /\ scans[c1].node = scans[c2].node
         /\ scans[c1].key = scans[c2].key
         /\ scans[c1].status = scans[c2].status
         /\ scans[c1].made # ""
         /\ scans[c2].made # "")
        => \/ scans[c1].made \in scans[c2].before
           \/ scans[c2].made \in scans[c1].before

\* C36: handling a FinalizeMessage with Passed = false changes neither the
\* official results, nor the recorded events, nor the outage rows, nor the
\* notification map, whatever the role; and when a collator handles a passed
\* offline FinalizeMessage, an OFFLINE alert is announced only if the outage
\* row of that message is in the table.
C36_FailedProposalNoEffect ==
    [][\A fm \in published :
          handled'[fm] = handled[fm] + 1 =>
              /\ ~fm.Passed =>
                    /\ official' = official
                    /\ recorded' = recorded
                    /\ rows' = rows
                    /\ offlineMap' = offlineMap
              /\ (recipientRole = RoleCollator /\ offlineMap' # offlineMap
                     /\ ~fm.Proposal.ProposedStatus)
                    => Row(KeyOf(fm.Proposal), DecidedAt(fm), 0) \in rows'
    ]_vars

\* C36's case: a collator has handled the FinalizeMessage of the proposal
\* that did not pass and that of a passed offline proposal whose insert
\* failed: no row, no alert.
C36_Witness ==
    /\ recipientRole = RoleCollator
    /\ handled[FinalizeMessage(P0, FALSE, "probe2", 0)] >= 1
    /\ handled[FinalizeMessage(P1, TRUE, "monitor1", 0)] >= 1
    /\ lastHandled.fm = FinalizeMessage(P1, TRUE, "monitor1", 0)
    /\ rows = {}
    /\ offlineMap = {}

\* C37: a collator that handles the FinalizeMessages of one passed online
\* decision, one of each deciding monitor, gets at most one ONLINE
\* notification into the room for the outage key, and gets one there only if
\* an open outage row or an announced OFFLINE message existed for the key.
C37_RecoveryAnnouncedOnce ==
    recipientRole = RoleCollator =>
        /\ Len(onlineNotes) <= 1
        /\ \A i \in DOMAIN onlineNotes : onlineNotes[i].open \/ onlineNotes[i].alert

\* C38: when RequestAll leaves its wait loop before the timeout, every node
\* that was counted as an active node of the role when the call began has a
\* response in the map the call returns with; a response of a node that was
\* not counted does not stand in for one of them.
C38_EarlyReturnComplete ==
    [][(gather.pc = "wait" /\ gather'.pc # "wait"
            /\ gather.elapsed < TimeoutPolls)
          => peers \subseteq DOMAIN gather'.used]_vars

\* C39: the hits of a stored usage row never go down from one collection of
\* the day to the next, the totals the DNS nodes report being non-decreasing;
\* collections that time out with some responses missing included.  Both
\* DNS nodes are counted as active.
C39_MonotoneCollection ==
    [][(gather.pc = "done" /\ gather'.pc = "stored" /\ peers = Origins) =>
          \A r \in requests :
              \E r2 \in requests' : r2.key = r.key /\ r2.hits >= r.hits]_vars

=========================================================================
